---- MODULE Spec2Model ----
(***************************************************************************)
(* Model of llmproc: the LLMProcess run entry point (llm_process.py) and   *)
(* the AnthropicProcessExecutor iteration loop                             *)
(* (providers/anthropic_process_executor.py).                              *)
(*                                                                         *)
(* A process is a record; every operation of the source is an operator     *)
(* from a process record (and the inputs of the step) to the process       *)
(* record after the step.  The variable proc is the process; the variable  *)
(* ref is a second process that receives exactly the same inputs as proc,  *)
(* except that none of its callbacks ever raises.                          *)
(***************************************************************************)
EXTENDS Integers, Sequences, FiniteSets, TLC

VARIABLES proc, ref, ops, cb_raised,
          child, attrs, call, linked_programs, programs, time_travel_history,
          disk

vars == <<proc, ref, ops, cb_raised,
          child, attrs, call, linked_programs, programs, time_travel_history, disk>>

\* what the iteration loop of one process alone leaves untouched: the other
\* process, the attributes set on processes from outside, the call of a tool
\* function in progress, the linked programs, the program objects and the
\* time-travel history, and the files on disk
beyond == <<child, attrs, call, linked_programs, programs, time_travel_history, disk>>

(* ------------------------------ bounds -------------------------------- *)
\* number of operations on the process: calls of run or of the executor, and
\* provider requests
MaxOps == 4
\* largest max_iterations argument passed to a run
MaxIterations == 2

(* ------------------------------ values -------------------------------- *)
None == "None"

Whitespace == {" "}

\* the user inputs tried: empty, whitespace only, plain, padded
Inputs == { <<>>, <<" ">>, <<" ", " ">>, <<"a">>, <<" ", "a", " ">> }

\* str.strip(): drop leading and trailing whitespace
RECURSIVE lstrip(_)
lstrip(s) == IF Len(s) > 0 /\ Head(s) \in Whitespace THEN lstrip(Tail(s)) ELSE s

RECURSIVE rstrip(_)
rstrip(s) == IF Len(s) > 0 /\ s[Len(s)] \in Whitespace
             THEN rstrip(SubSeq(s, 1, Len(s) - 1)) ELSE s

strip(s) == rstrip(lstrip(s))

\* names the tool registry has a handler for
RegisteredTools == {"calculator"}
\* names a model response may ask for (one of them is not registered)
ToolNames == {"calculator", "nope"}

CallbackNames == {"on_tool_start", "on_tool_end", "on_response"}

\* a Python value that is a str, and one that is a list
Str(s) == [py |-> "str", v |-> s]
List(l) == [py |-> "list", v |-> l]

TextBlock == [type |-> "text", text |-> "t"]
ToolUse(name, n, k) == [type |-> "tool_use", name |-> name, id |-> <<n, k>>]

\* the contents of the n-th provider response of a run that ask for tools
ToolUseContents(n) ==
    { <<ToolUse(t, n, 1)>> : t \in ToolNames }
    \cup { <<TextBlock, ToolUse("calculator", n, 2), ToolUse("calculator", n, 3)>> }

has_tool_calls(content) ==
    Cardinality({i \in DOMAIN content : content[i].type = "tool_use"}) > 0

\* the responses the provider may give to the n-th request of a run
Responses(n) ==
    { [content |-> <<>>, stop_reason |-> "end_turn"] }
    \cup { [content |-> <<TextBlock>>, stop_reason |-> s] : s \in {"end_turn", "max_tokens"} }
    \cup { [content |-> c, stop_reason |-> "tool_use"] : c \in ToolUseContents(n) }

(* --------------------------- the process ------------------------------ *)
PreloadFiles == {"notes.txt"}

\* enriched_system_prompt = None
NoPrompt == <<>>

\* LLMProcess.__init__: the fields of a fresh process.  The fields from pc
\* on are the position and the local variables of the run in progress, and a
\* record of how the last run ended.
NewProcess(preload) ==
    [ state                  |-> <<>>,
      has_messages           |-> FALSE,
      enriched_system_prompt |-> NoPrompt,
      preloaded_content      |-> preload,
      stop_reason            |-> None,
      run_stop_reason        |-> None,
      pc                     |-> "idle",
      entry                  |-> None,
      user_input             |-> <<>>,
      max_iterations         |-> 0,
      iterations             |-> 0,
      callbacks              |-> {},
      response               |-> <<>>,
      n_responses            |-> 0,
      idx                    |-> 0,
      tool_results           |-> <<>>,
      api_calls              |-> 0,
      last_request           |-> <<>>,
      events                 |-> <<>>,
      last_tool              |-> [id |-> <<0, 0>>, outcome |-> "none"],
      outcome                |-> "none",
      raised_by              |-> None,
      ret                    |-> 0 ]

\* LLMProgram.get_enriched_system_prompt: base prompt plus the preloaded files
get_enriched_system_prompt(p) == <<"system_prompt", p.preloaded_content>>

\* an exception leaves the run: the caller of run sees it
Raise(p, why) ==
    [p EXCEPT !.pc = "idle", !.outcome = "raised", !.raised_by = why]

Raised(p) == p.outcome = "raised"

\* list.append on the message log (process.messages is process.state)
append_message(p, m) == [p EXCEPT !.state = Append(@, m)]

\* the try/except around every callback call: does the callback's exception
\* leave the loop?
CallbackPropagates_unguarded(raises) == raises

CallbackPropagates(raises) == FALSE

\* one callback call: nothing when the callback is not given
Callback(p, name, ev, raises) ==
    IF name \notin p.callbacks THEN p
    ELSE LET called == [p EXCEPT !.events = Append(@, ev)]
         IN  IF CallbackPropagates(name \in raises)
             THEN Raise(called, "callback") ELSE called

\* a call of run or of the executor begins: what the model records about the
\* call in progress starts afresh (no field of the program's own state changes)
BeginCall(p, entry, user_input) ==
    [p EXCEPT !.entry = entry, !.user_input = user_input,
              !.response = <<>>, !.n_responses = 0, !.idx = 0, !.tool_results = <<>>,
              !.api_calls = 0, !.last_request = <<>>, !.events = <<>>,
              !.last_tool = [id |-> <<0, 0>>, outcome |-> "none"],
              !.outcome = "none", !.raised_by = None, !.ret = 0]

\* lines 150-152: the code after the loop
Finish(p) ==
    [p EXCEPT !.run_stop_reason =
                  IF p.iterations >= p.max_iterations THEN "max_iterations" ELSE @,
              !.pc = "idle", !.outcome = "returned", !.ret = p.iterations]

\* line 44: the loop condition
loop_continues_inclusive(p) == p.iterations <= p.max_iterations

loop_continues(p) == p.iterations < p.max_iterations

\* the loop head: the next provider request, or the end of the run
LoopHead(p) == IF loop_continues(p) THEN [p EXCEPT !.pc = "call"] ELSE Finish(p)

\* AnthropicProcessExecutor.run, lines 31-43, up to the first request
run(p, user_prompt, max_iterations, callbacks, is_tool_continuation) ==
    LET appended == IF is_tool_continuation THEN p
                    ELSE append_message(p, [role |-> "user", content |-> Str(user_prompt)])
    IN  LoopHead([appended EXCEPT
            !.run_stop_reason = None, !.iterations = 0,
            !.max_iterations = max_iterations, !.callbacks = callbacks])

\* llm_process.py line 300: the check of the user input
input_is_empty_no_strip(user_input) == Len(user_input) = 0

input_is_empty(user_input) == Len(user_input) = 0 \/ Len(strip(user_input)) = 0

\* LLMProcess._async_run
async_run(q, user_input, max_iterations) ==
    LET p == BeginCall(q, "run", user_input) IN
    IF input_is_empty(user_input)
    THEN Raise(p, "ValueError")
    ELSE LET enriched ==
                 IF p.enriched_system_prompt = NoPrompt
                 THEN [p EXCEPT
                         !.enriched_system_prompt = get_enriched_system_prompt(p),
                         !.state = << [role |-> "system",
                                       content |-> Str(get_enriched_system_prompt(p))] >>]
                 ELSE p
             with_input == append_message(enriched,
                                          [role |-> "user", content |-> Str(user_input)])
         IN  run([with_input EXCEPT !.has_messages = TRUE],
                 user_input, max_iterations, {}, FALSE)

\* a caller that holds callbacks calls the executor itself on the process
executor_run(p, user_prompt, max_iterations, callbacks, is_tool_continuation) ==
    run(BeginCall(p, "executor", user_prompt),
        user_prompt, max_iterations, callbacks, is_tool_continuation)

(* ----------------------- the iteration loop --------------------------- *)
\* line 54: the messages of a request
request_messages(p) == SelectSeq(p.state, LAMBDA m : m.role # "system")

\* lines 76-81: an answer without tool use is appended when it has content
append_if_content_unchecked(p, content) ==
    append_message(p, [role |-> "assistant", content |-> List(content)])

append_if_content(p, content) ==
    IF Len(content) > 0
    THEN append_message(p, [role |-> "assistant", content |-> List(content)])
    ELSE p

\* lines 138-147: the message that carries one tool result
tool_result_message(tool_id, result) ==
    [role |-> "user",
     content |-> List(<< [type |-> "tool_result", tool_use_id |-> tool_id,
                          content |-> result] >>)]

\* lines 148-149: the answer, then the tool results
append_answer_only(p) ==
    [p EXCEPT !.state = Append(@, [role |-> "assistant", content |-> List(p.response)])]

append_tool_results(p) ==
    [p EXCEPT !.state = Append(@, [role |-> "assistant", content |-> List(p.response)])
                        \o p.tool_results]

\* the index of the first tool_use block of content at or after i
\* (lines 98-102: text blocks are passed over), Len(content) + 1 if none
RECURSIVE next_tool_use_last(_, _)
next_tool_use_last(content, i) ==
    IF i >= Len(content) THEN i
    ELSE LET rest == next_tool_use_last(content, i + 1)
         IN  IF rest <= Len(content) THEN rest
             ELSE IF content[i].type = "tool_use" THEN i ELSE rest

RECURSIVE next_tool_use(_, _)
next_tool_use(content, i) ==
    IF i > Len(content) \/ content[i].type = "tool_use" THEN i
    ELSE next_tool_use(content, i + 1)

\* lines 98-129: on to the next tool_use block of the response and up to the
\* call of its handler; after the last block, lines 148-149 and the loop head
start_next_tool(p, from, raises) ==
    LET i == next_tool_use(p.response, from) IN
    IF i > Len(p.response)
    THEN LoopHead(append_tool_results([p EXCEPT !.idx = i]))
    ELSE LET started == Callback([p EXCEPT !.idx = i], "on_tool_start",
                                 [ev |-> "on_tool_start", id |-> p.response[i].id], raises)
         IN  IF Raised(started) THEN started ELSE [started EXCEPT !.pc = "tool"]

\* lines 51-97: the provider answers the request
api_response(q, resp, raises) ==
    LET p == [q EXCEPT !.iterations = @ + 1, !.api_calls = @ + 1,
                       !.last_request = request_messages(q),
                       !.n_responses = @ + 1, !.response = resp.content,
                       !.tool_results = <<>>, !.idx = 0,
                       !.stop_reason = resp.stop_reason]
    IN  IF ~has_tool_calls(resp.content)
        THEN Finish([append_if_content(p, resp.content)
                       EXCEPT !.run_stop_reason = resp.stop_reason])
        ELSE LET told == Callback(p, "on_response",
                                  [ev |-> "on_response", id |-> <<p.api_calls, 0>>], raises)
             IN  IF Raised(told) THEN told ELSE start_next_tool(told, 1, raises)

\* lines 51-57: the request fails and the exception leaves run
api_error(q) ==
    Raise([q EXCEPT !.iterations = @ + 1, !.api_calls = @ + 1,
                    !.last_request = request_messages(q)], "provider")

\* LLMProcess.call_tool and ToolRegistry.call_tool: a name without a handler
\* and a handler that raises both end in RuntimeError
call_tool_raises_on_error(tool_name, outcome) ==
    tool_name \notin RegisteredTools \/ outcome \in {"raise", "err"}

call_tool_raises(tool_name, outcome) ==
    tool_name \notin RegisteredTools \/ outcome = "raise"

\* what became of the call: without a handler the lookup raises
handler_outcome(tool_name, outcome) ==
    IF tool_name \in RegisteredTools THEN outcome ELSE "raise"

\* what the handler returned
tool_result(tool_name, outcome) == [is_error |-> outcome = "err", content |-> tool_name]

\* lines 129-147: the handler of the current tool_use block is done
tool_done(q, outcome, raises) ==
    LET use == q.response[q.idx]
        p == [q EXCEPT !.last_tool = [id |-> use.id,
                                      outcome |-> handler_outcome(use.name, outcome)]]
    IN  IF call_tool_raises(use.name, outcome)
        THEN Raise(p, "tool")
        ELSE LET result == tool_result(use.name, outcome)
                 ended == Callback(p, "on_tool_end",
                                   [ev |-> "on_tool_end", id |-> use.id], raises)
             IN  IF Raised(ended) THEN ended
                 ELSE start_next_tool(
                          [ended EXCEPT !.tool_results =
                                            Append(@, tool_result_message(use.id, result))],
                          p.idx + 1, raises)

(* --------------------------- the actions ------------------------------ *)
\* the callbacks a caller of the executor passes
CallbackSets == { {}, CallbackNames }

\* no call in progress
NoCall == [op |-> "none", pc |-> "idle"]

\* what __init__ leaves unset on a process: allow_fork and fd_manager are
\* attributes that only a caller can set
NoAttrs == [allow_fork |-> "unset", fd_manager |-> <<>>]

\* a single process: nothing forked, spawned, linked or compiled
Alone ==
    /\ child = <<>>
    /\ attrs = [parent |-> NoAttrs, child |-> NoAttrs]
    /\ call = NoCall
    /\ linked_programs = <<>>
    /\ programs = <<>>
    /\ time_travel_history = <<>> /\ disk = <<>>

Init ==
    /\ \E preload \in SUBSET PreloadFiles :
           /\ proc = NewProcess(preload)
           /\ ref = NewProcess(preload)
    /\ ops = 0
    /\ cb_raised = FALSE
    /\ Alone

\* process.run(user_input, max_iterations)
Run ==
    /\ proc.pc = "idle" /\ ops < MaxOps
    /\ \E user_input \in Inputs, max_iterations \in 0..MaxIterations :
           /\ proc' = async_run(proc, user_input, max_iterations)
           /\ ref' = async_run(ref, user_input, max_iterations)
    /\ ops' = ops + 1
    /\ cb_raised' = FALSE
    /\ UNCHANGED beyond

\* executor.run(process, prompt, max_iterations, callbacks, is_tool_continuation)
ExecutorRun ==
    /\ proc.pc = "idle" /\ ops < MaxOps /\ proc.has_messages
    /\ \E max_iterations \in 0..MaxIterations, callbacks \in CallbackSets,
          is_tool_continuation \in BOOLEAN :
           /\ proc' = executor_run(proc, <<"a">>, max_iterations, callbacks,
                                   is_tool_continuation)
           /\ ref' = executor_run(ref, <<"a">>, max_iterations, callbacks,
                                  is_tool_continuation)
    /\ ops' = ops + 1
    /\ cb_raised' = FALSE
    /\ UNCHANGED beyond

\* which of the callbacks called in a step raise
RaiseSets(p) == SUBSET p.callbacks

\* a callback called in the step from p to q raised
CallbackRaised(p, q, raises) ==
    \E i \in (Len(p.events) + 1)..Len(q.events) : q.events[i].ev \in raises

ProviderResponds ==
    /\ proc.pc = "call" /\ ops < MaxOps /\ ops' = ops + 1
    /\ \E resp \in Responses(proc.api_calls + 1), raises \in RaiseSets(proc) :
           /\ proc' = api_response(proc, resp, raises)
           /\ ref' = api_response(ref, resp, {})
           /\ cb_raised' = (cb_raised \/ CallbackRaised(proc, proc', raises))
    /\ UNCHANGED beyond

ProviderFails ==
    /\ proc.pc = "call" /\ ops < MaxOps /\ ops' = ops + 1
    /\ proc' = api_error(proc)
    /\ ref' = api_error(ref)
    /\ UNCHANGED <<cb_raised, beyond>>

ToolDone ==
    /\ proc.pc = "tool"
    /\ \E outcome \in {"ok", "err", "raise"}, raises \in RaiseSets(proc) :
           /\ proc' = tool_done(proc, outcome, raises)
           /\ ref' = tool_done(ref, outcome, {})
           /\ cb_raised' = (cb_raised \/ CallbackRaised(proc, proc', raises))
    /\ UNCHANGED <<ops, beyond>>

Next == Run \/ ExecutorRun \/ ProviderResponds \/ ProviderFails \/ ToolDone

Spec == Init /\ [][Next]_vars

(* ------------------------------- fork --------------------------------- *)
\* the largest number of prompts of a fork call
MaxPrompts == 2
\* the largest number of file descriptors of one manager
MaxFds == 2

\* json.dumps of a list, and an int
json_dumps(l) == [py |-> "json", v |-> l]
PyInt(n) == [py |-> "int", v |-> n]

\* the fork tool_use block k of the n-th response, with its prompts
ForkUse(n, k, prompts) ==
    [type |-> "tool_use", name |-> "fork", id |-> <<n, k>>, input |-> prompts]

PromptList(k) == [i \in 1..k |-> <<"prompt", i>>]

\* the responses of the provider to a process that has the fork tool
ForkResponses(n) ==
    { [content |-> <<>>, stop_reason |-> "end_turn"],
      [content |-> <<TextBlock>>, stop_reason |-> "end_turn"],
      [content |-> <<ToolUse("calculator", n, 1)>>, stop_reason |-> "tool_use"],
      [content |-> <<TextBlock, ToolUse("calculator", n, 1),
                     ForkUse(n, 2, PromptList(1))>>, stop_reason |-> "tool_use"] }
    \cup { [content |-> <<ForkUse(n, 1, PromptList(k))>>, stop_reason |-> "tool_use"] :
             k \in 0..MaxPrompts }

\* the methods class LLMProcess defines (there is no deepcopy among them)
LLMProcessMethods ==
    { "create", "preload_files", "from_toml", "from_toml_async", "run", "_async_run",
      "get_state", "_initialize_mcp_tools", "reset_state", "_initialize_tools",
      "call_tool", "get_last_message", "fork_process" }

ForkRefused == Str(<<"Forking is not allowed for this agent">>)

\* AnthropicProcessExecutor._fork on a process with the attributes a: what
\* the call returns, or that it raises.  process.allow_fork is read first;
\* with prompts, process_fork starts with process.deepcopy(), and gather
\* hands the first exception on.
_fork(a, prompts) ==
    IF a.allow_fork = "unset"
    THEN [raised |-> TRUE, why |-> "AttributeError", result |-> Str(<<>>)]
    ELSE IF a.allow_fork = "False"
    THEN [raised |-> FALSE, why |-> None, result |-> ForkRefused]
    ELSE IF Len(prompts) = 0
    THEN [raised |-> FALSE, why |-> None, result |-> json_dumps(<<>>)]
    ELSE [raised |-> "deepcopy" \notin LLMProcessMethods, why |-> "AttributeError",
          result |-> Str(<<>>)]

\* lines 123-147 for a fork block: the call of _fork is done
fork_done(q, a, raises) ==
    LET use == q.response[q.idx]
        got == _fork(a, use.input)
        p == [q EXCEPT !.last_tool = [id |-> use.id,
                                      outcome |-> IF got.raised THEN "raise" ELSE "ok"]]
    IN  IF got.raised
        THEN Raise(p, got.why)
        ELSE LET ended == Callback(p, "on_tool_end",
                                   [ev |-> "on_tool_end", id |-> use.id], raises)
             IN  IF Raised(ended) THEN ended
                 ELSE start_next_tool(
                          [ended EXCEPT !.tool_results =
                                            Append(@, tool_result_message(use.id, got.result))],
                          p.idx + 1, raises)

\* LLMProcess.preload_files: the files that exist are added to the preload
\* map and the enriched system prompt is reset
preload_files(p, files) ==
    [p EXCEPT !.preloaded_content = @ \cup files, !.enriched_system_prompt = NoPrompt]

\* LLMProcess.reset_state
reset_state(p, keep_preloaded) ==
    [p EXCEPT !.state = <<>>,
              !.preloaded_content = IF keep_preloaded THEN @ ELSE {},
              !.enriched_system_prompt = NoPrompt]

\* LLMProcess.fork_process: a new process of the same program (its __init__
\* preloads the files of the program), then the copies
fork_process(p, program_preload) ==
    LET forked == NewProcess(program_preload) IN
    [forked EXCEPT
        !.enriched_system_prompt = IF p.enriched_system_prompt # NoPrompt
                                   THEN p.enriched_system_prompt ELSE @,
        !.state = p.state,
        !.preloaded_content = IF p.preloaded_content # {} THEN p.preloaded_content ELSE @]

\* LLMProcess.get_last_message: the texts of the last message when it is an
\* assistant message (joined with " "), else the empty string
get_last_message(p) ==
    IF Len(p.state) = 0 THEN <<>>
    ELSE LET last_message == p.state[Len(p.state)] IN
         IF last_message.role # "assistant" THEN <<>>
         ELSE IF last_message.content.py = "str" THEN last_message.content.v
         ELSE LET texts == SelectSeq(last_message.content.v, LAMBDA b : b.type = "text")
              IN  [i \in 1..Len(texts) |-> texts[i].text]

PROMPT_FORCE_MODEL_RESPONSE == <<"Please respond with a text response">>
PROMPT_SUMMARIZE_CONVERSATION ==
    <<"Please stop using tools and summarize your progress so far">>
Exhausted == Str(<<"Maximum iterations reached without final response.">>)

\* run_result.api_calls: what run returns is an int, and an int has no
\* attribute api_calls
has_api_calls(run_result) == run_result.py = "RunResult"

till_text_return(c, result) ==
    [c EXCEPT !.pc = "idle", !.outcome = "returned", !.result = result]

till_text_raise(c, why) ==
    [c EXCEPT !.pc = "idle", !.outcome = "raised", !.raised_by = why]

\* lines 166-169 and 197: the loop head of run_till_text_response, with the
\* call record c and the process p; the call and the process after it
till_text_loop(c, p) ==
    IF c.iterations < c.max_iterations
    THEN [call |-> [c EXCEPT !.pc = "run"],
          proc |-> executor_run(p, c.next_prompt, c.max_iterations - c.iterations,
                                {}, FALSE)]
    ELSE [call |-> till_text_return(c, Exhausted), proc |-> p]

\* AnthropicProcessExecutor.run_till_text_response, up to its first await
run_till_text_response(p, who, user_prompt, max_iterations) ==
    till_text_loop([op |-> "run_till_text_response", pc |-> "run", who |-> who,
                    iterations |-> 0, max_iterations |-> max_iterations,
                    next_prompt |-> user_prompt, total_api_calls |-> 0,
                    requests |-> 0, outcome |-> "none", raised_by |-> None,
                    result |-> Str(<<>>)], p)

\* lines 172-194: the run awaited at line 168 is over
till_text_after_run(c, p) ==
    LET run_result == PyInt(p.ret)
        counted == [c EXCEPT !.requests = @ + p.api_calls]
    IN  IF Raised(p) THEN [call |-> till_text_raise(counted, p.raised_by), proc |-> p]
        ELSE IF ~has_api_calls(run_result)
        THEN [call |-> till_text_raise(counted, "AttributeError"), proc |-> p]
        ELSE LET c1 == [counted EXCEPT !.iterations = @ + run_result.v,
                                       !.total_api_calls = @ + run_result.v]
             IN  IF Len(get_last_message(p)) > 0
                 THEN [call |-> till_text_return(c1, Str(get_last_message(p))), proc |-> p]
                 ELSE IF p.run_stop_reason = "max_iterations"
                 THEN [call |-> [c1 EXCEPT !.pc = "summarize"],
                       proc |-> executor_run(p, PROMPT_SUMMARIZE_CONVERSATION, 1, {}, FALSE)]
                 ELSE till_text_loop([c1 EXCEPT !.next_prompt = PROMPT_FORCE_MODEL_RESPONSE], p)

\* lines 186-194: the run awaited at line 183 is over
till_text_after_summarize(c, p) ==
    LET run_result == PyInt(p.ret)
        counted == [c EXCEPT !.requests = @ + p.api_calls]
    IN  IF Raised(p) THEN [call |-> till_text_raise(counted, p.raised_by), proc |-> p]
        ELSE IF ~has_api_calls(run_result)
        THEN [call |-> till_text_raise(counted, "AttributeError"), proc |-> p]
        ELSE LET c1 == [counted EXCEPT !.total_api_calls = @ + run_result.v]
             IN  IF Len(get_last_message(p)) > 0
                 THEN [call |-> till_text_return(c1, Str(get_last_message(p))), proc |-> p]
                 ELSE till_text_loop([c1 EXCEPT !.next_prompt = PROMPT_FORCE_MODEL_RESPONSE], p)

till_text_resume(c, p) ==
    IF c.pc = "run" THEN till_text_after_run(c, p) ELSE till_text_after_summarize(c, p)

\* FileDescriptorManager.create_fd: a new descriptor fd:<n> in the table
create_fd(table, content) == Append(table, [content |-> content, total_pages |-> 1])

(* ---------------------- parent and fork child ------------------------- *)
Procs == {"parent", "child"}

Exists(who) == who = "parent" \/ child # <<>>

The(who) == IF who = "parent" THEN proc ELSE child[1]

Becomes(who, q) ==
    IF who = "parent" THEN proc' = q /\ UNCHANGED child
    ELSE child' = <<q>> /\ UNCHANGED proc

\* a call of run_till_text_response awaits the run of process who
Awaited(who) ==
    call.op = "run_till_text_response" /\ call.pc # "idle" /\ call.who = who

\* the step of process who ends in q: when q is the end of the run that a
\* call of run_till_text_response awaits, the call goes on in the same step
Settle(who, q) ==
    IF Awaited(who) /\ q.pc = "idle"
    THEN LET r == till_text_resume(call, q)
         IN  Becomes(who, r.proc) /\ call' = r.call
    ELSE Becomes(who, q) /\ UNCHANGED call

\* the current block of a process that awaits a handler is the fork call
AtFork(p) == p.pc = "tool" /\ p.response[p.idx].name = "fork"

InitFork ==
    /\ \E preload \in SUBSET PreloadFiles :
           /\ proc = NewProcess(preload)
           /\ ref = NewProcess(preload)
           /\ programs = [main |-> [preload_files |-> preload]]
    /\ \E allow_fork \in {"unset", "True", "False"}, fd_manager \in {<<>>, << <<>> >>} :
           attrs = [parent |-> [allow_fork |-> allow_fork, fd_manager |-> fd_manager],
                    child |-> NoAttrs]
    /\ ops = 0 /\ cb_raised = FALSE
    /\ child = <<>> /\ call = NoCall
    /\ linked_programs = <<>> /\ time_travel_history = <<>> /\ disk = <<>>

\* what no step of parent and child touches
fork_frame == <<ref, cb_raised, linked_programs, programs, time_travel_history, disk>>

\* parent.fork_process()
ForkProcess ==
    /\ child = <<>> /\ proc.pc = "idle"
    /\ child' = <<fork_process(proc, programs.main.preload_files)>>
    /\ attrs' = [attrs EXCEPT !.child = NoAttrs]
    /\ UNCHANGED <<proc, ops, call, fork_frame>>

\* process.run(user_input, max_iterations) on the parent or the child
ForkRun ==
    /\ ops < MaxOps /\ ops' = ops + 1
    /\ \E who \in Procs, max_iterations \in 1..MaxIterations :
           /\ Exists(who) /\ The(who).pc = "idle"
           /\ Becomes(who, async_run(The(who), <<"a">>, max_iterations))
    /\ UNCHANGED <<attrs, call, fork_frame>>

\* executor.run_till_text_response(process, prompt, max_iterations)
RunTillTextResponse ==
    /\ ops < MaxOps /\ ops' = ops + 1
    /\ \E who \in Procs, max_iterations \in 0..MaxIterations :
           /\ Exists(who) /\ The(who).pc = "idle" /\ The(who).has_messages
           /\ LET r == run_till_text_response(The(who), who, <<"a">>, max_iterations)
              IN  Becomes(who, r.proc) /\ call' = r.call
    /\ UNCHANGED <<attrs, fork_frame>>

ForkProviderResponds ==
    /\ ops < MaxOps /\ ops' = ops + 1
    /\ \E who \in Procs :
           /\ Exists(who) /\ The(who).pc = "call"
           /\ \E resp \in ForkResponses(The(who).api_calls + 1) :
                  Settle(who, api_response(The(who), resp, {}))
    /\ UNCHANGED <<attrs, fork_frame>>

ForkProviderFails ==
    /\ ops < MaxOps /\ ops' = ops + 1
    /\ \E who \in Procs :
           /\ Exists(who) /\ The(who).pc = "call"
           /\ Settle(who, api_error(The(who)))
    /\ UNCHANGED <<attrs, fork_frame>>

\* the handler of a tool other than fork is done
ForkToolDone ==
    /\ \E who \in Procs :
           /\ Exists(who) /\ The(who).pc = "tool" /\ ~AtFork(The(who))
           /\ \E outcome \in {"ok", "raise"} :
                  Settle(who, tool_done(The(who), outcome, {}))
    /\ UNCHANGED <<ops, attrs, fork_frame>>

\* the fork call of the current response is done
ForkDone ==
    /\ \E who \in Procs :
           /\ Exists(who) /\ AtFork(The(who))
           /\ Settle(who, fork_done(The(who), attrs[who], {}))
    /\ UNCHANGED <<ops, attrs, fork_frame>>

\* process.preload_files(["more.txt"])
PreloadMore ==
    /\ ops < MaxOps /\ ops' = ops + 1
    /\ \E who \in Procs :
           /\ Exists(who) /\ The(who).pc = "idle"
           /\ Becomes(who, preload_files(The(who), {"more.txt"}))
    /\ UNCHANGED <<attrs, call, fork_frame>>

\* process.reset_state(keep_preloaded = ...)
ResetState ==
    /\ ops < MaxOps /\ ops' = ops + 1
    /\ \E who \in Procs, keep_preloaded \in BOOLEAN :
           /\ Exists(who) /\ The(who).pc = "idle"
           /\ Becomes(who, reset_state(The(who), keep_preloaded))
    /\ UNCHANGED <<attrs, call, fork_frame>>

\* process.fd_manager.create_fd(content) on a process that was given a manager
CreateFd ==
    /\ \E who \in Procs :
           /\ Exists(who) /\ attrs[who].fd_manager # <<>>
           /\ Len(attrs[who].fd_manager[1]) < MaxFds
           /\ attrs' = [attrs EXCEPT ![who].fd_manager = <<create_fd(@[1], "x")>>]
    /\ UNCHANGED <<proc, child, ops, call, fork_frame>>

NextFork ==
    \/ ForkProcess \/ ForkRun \/ RunTillTextResponse
    \/ ForkProviderResponds \/ ForkProviderFails \/ ForkToolDone \/ ForkDone
    \/ PreloadMore \/ ResetState \/ CreateFd

SpecFork == InitFork /\ [][NextFork]_vars

(* ------------------------------- spawn -------------------------------- *)
\* LLMProcess.run: max_iterations when the caller passes none
DEFAULT_MAX_ITERATIONS == 10

\* the names a linked-program map may hold, and a name it never holds
ProgramNames == {"expert", "helper"}
SpawnNames == ProgramNames \cup {"ghost"}

\* the values of a linked-program map: a process instance (it has a run
\* method), an LLMProgram object, or the path of a program that was never
\* compiled (a str)
LinkedEntries ==
    { [kind |-> "process", preload_files |-> {}], [kind |-> "path", preload_files |-> {}] }
    \cup { [kind |-> "program", preload_files |-> PreloadFiles] }

\* lines 88-91, 99-102, 132-135: the error result
spawn_error(text) == [error |-> text, is_error |-> TRUE]

spawn_return(c, result) == [c EXCEPT !.pc = "idle", !.outcome = "returned", !.result = result]

\* an exception leaves spawn_tool
spawn_raise(c, why) == [c EXCEPT !.pc = "idle", !.outcome = "raised", !.raised_by = why]

\* lines 126-135: the except clause around creating and running the child
spawn_except_missing(c, why) == spawn_raise(c, why)

spawn_except(c, why) ==
    spawn_return(c, spawn_error(<<"Error creating process from program", c.program_name, why>>))

\* lines 118-125: the run of the child awaited at line 118 is over, or not yet
spawn_after_run(c, procs) ==
    LET linked_process == procs[c.linked_process] IN
    IF linked_process.pc # "idle" THEN [c EXCEPT !.pc = "run"]
    ELSE IF Raised(linked_process) THEN spawn_except(c, linked_process.raised_by)
    ELSE spawn_return(c, [program  |-> c.program_name,
                          query    |-> c.query,
                          response |-> PyInt(linked_process.ret)])

\* spawn_tool(program_name, query, llm_process), up to its first await: the
\* call record and the processes after it.  lp is llm_process.linked_programs,
\* procs the process objects there are.
spawn_tool(program_name, query, has_llm_process, lp, procs) ==
    LET c == [op |-> "spawn", pc |-> "run", program_name |-> program_name,
              query |-> query, llm_process |-> has_llm_process,
              linked_process |-> None, outcome |-> "none",
              raised_by |-> None, result |-> spawn_error(<<>>)]
    IN
    IF ~has_llm_process
    THEN [call |-> spawn_return(c, spawn_error(
                      <<"Spawn system call requires a parent LLMProcess with linked_programs defined">>)),
          child |-> procs]
    ELSE IF program_name \notin DOMAIN lp
    THEN [call |-> spawn_return(c, spawn_error(
                      <<"Program", program_name, "not found. Available programs:", DOMAIN lp>>)),
          child |-> procs]
    ELSE LET linked_program == lp[program_name] IN
         IF linked_program.kind = "path"
         THEN [call |-> spawn_except(c, "AttributeError"), child |-> procs]
         ELSE LET key == IF linked_program.kind = "process" THEN program_name ELSE "new"
                  linked_process ==
                      IF linked_program.kind = "process" THEN procs[program_name]
                      ELSE NewProcess(linked_program.preload_files)
                  running == [n \in DOMAIN procs \cup {key} |->
                                 IF n = key
                                 THEN async_run(linked_process, query, DEFAULT_MAX_ITERATIONS)
                                 ELSE procs[n]]
              IN  [call  |-> spawn_after_run([c EXCEPT !.linked_process = key], running),
                   child |-> running]

\* the process a call of spawn_tool is running
Spawning == call.op = "spawn" /\ call.pc = "run"

\* the step of the spawned process ends in q: when q is the end of its run,
\* spawn_tool goes on in the same step
SpawnSettle(q) ==
    LET running == [child EXCEPT ![call.linked_process] = q]
    IN  child' = running /\ call' = spawn_after_run(call, running)

InitSpawn ==
    /\ proc = NewProcess({}) /\ ref = NewProcess({})
    /\ ops = 0 /\ cb_raised = FALSE
    /\ attrs = [parent |-> NoAttrs, child |-> NoAttrs]
    /\ call = NoCall
    /\ \E names \in SUBSET ProgramNames : linked_programs \in [names -> LinkedEntries]
    /\ child = [n \in {m \in DOMAIN linked_programs : linked_programs[m].kind = "process"}
                   |-> NewProcess({})]
    /\ programs = <<>> /\ time_travel_history = <<>> /\ disk = <<>>

\* what no step of spawn touches besides the parent
spawn_frame == <<ref, cb_raised, attrs, programs, time_travel_history, disk>>

\* await spawn_tool(program_name, query, llm_process)
SpawnTool ==
    /\ call.pc = "idle" /\ proc.pc = "idle" /\ ops < MaxOps /\ ops' = ops + 1
    /\ \E program_name \in SpawnNames, query \in {<<>>, <<"a">>},
          has_llm_process \in BOOLEAN :
           LET r == spawn_tool(program_name, query, has_llm_process,
                               linked_programs, child)
           IN  call' = r.call /\ child' = r.child
    /\ UNCHANGED <<proc, linked_programs, spawn_frame>>

\* the parent runs on its own
SpawnParentRun ==
    /\ call.pc = "idle" /\ proc.pc = "idle" /\ ops < MaxOps /\ ops' = ops + 1
    /\ proc' = async_run(proc, <<"a">>, 1)
    /\ UNCHANGED <<child, call, linked_programs, spawn_frame>>

SpawnProviderResponds ==
    /\ ops < MaxOps /\ ops' = ops + 1
    /\ \/ /\ proc.pc = "call"
          /\ \E resp \in Responses(proc.api_calls + 1) :
                 proc' = api_response(proc, resp, {})
          /\ UNCHANGED <<child, call>>
       \/ /\ Spawning /\ child[call.linked_process].pc = "call"
          /\ \E resp \in Responses(child[call.linked_process].api_calls + 1) :
                 SpawnSettle(api_response(child[call.linked_process], resp, {}))
          /\ UNCHANGED proc
    /\ UNCHANGED <<linked_programs, spawn_frame>>

SpawnProviderFails ==
    /\ ops < MaxOps /\ ops' = ops + 1
    /\ \/ /\ proc.pc = "call"
          /\ proc' = api_error(proc)
          /\ UNCHANGED <<child, call>>
       \/ /\ Spawning /\ child[call.linked_process].pc = "call"
          /\ SpawnSettle(api_error(child[call.linked_process]))
          /\ UNCHANGED proc
    /\ UNCHANGED <<linked_programs, spawn_frame>>

SpawnToolDone ==
    /\ \E outcome \in {"ok", "err", "raise"} :
           \/ /\ proc.pc = "tool"
              /\ proc' = tool_done(proc, outcome, {})
              /\ UNCHANGED <<child, call>>
           \/ /\ Spawning /\ child[call.linked_process].pc = "tool"
              /\ SpawnSettle(tool_done(child[call.linked_process], outcome, {}))
              /\ UNCHANGED proc
    /\ UNCHANGED <<ops, linked_programs, spawn_frame>>

NextSpawn ==
    \/ SpawnTool \/ SpawnParentRun
    \/ SpawnProviderResponds \/ SpawnProviderFails \/ SpawnToolDone

SpecSpawn == InitSpawn /\ [][NextSpawn]_vars

(* ------------------------------- goto --------------------------------- *)
\* the longest message log tried
MaxMessages == 3
\* the number of goto calls
MaxGotos == 2

Digits == <<"0", "1", "2", "3", "4", "5", "6", "7", "8", "9">>

\* str(n) of a natural number: its decimal digits
RECURSIVE str(_)
str(n) == IF n < 10 THEN <<Digits[n + 1]>>
          ELSE str(n \div 10) \o <<Digits[(n % 10) + 1]>>

\* int(s) of a string of decimal digits: <<n>>, and <<>> where int raises
\* ValueError
RECURSIVE int(_)
int(s) ==
    IF Len(s) = 0 \/ \E i \in 1..Len(s) : \A d \in 1..10 : Digits[d] # s[i] THEN <<>>
    ELSE LET last == (CHOOSE d \in 1..10 : Digits[d] = s[Len(s)]) - 1
         IN  IF Len(s) = 1 THEN <<last>>
             ELSE <<int(SubSeq(s, 1, Len(s) - 1))[1] * 10 + last>>

\* the prefix of a message id
MsgPrefix == <<"m", "s", "g", "_">>

\* position.startswith("msg_")
startswith(s, prefix) == Len(s) >= Len(prefix) /\ SubSeq(s, 1, Len(prefix)) = prefix

\* append_message_with_id: the message gets the id msg_<len(state)>
append_message_with_id(p, role, content) ==
    append_message(p, [role |-> role, content |-> content,
                       goto_id |-> Str(MsgPrefix \o str(Len(p.state)))])

\* find_position_by_id: <<index>> of the message that carries the id; when no
\* message carries it, the number of the id if the log has that index; and
\* <<>> (None) for anything else
find_position_by_id(state, position) ==
    IF position.py # "str" \/ ~startswith(position.v, MsgPrefix) THEN <<>>
    ELSE IF \E i \in 1..Len(state) : state[i].goto_id = position
    THEN <<(CHOOSE i \in 1..Len(state) : state[i].goto_id = position) - 1>>
    ELSE LET n == int(SubSeq(position.v, Len(MsgPrefix) + 1, Len(position.v)))
         IN  IF n # <<>> /\ n[1] < Len(state) THEN n ELSE <<>>

\* the check that refuses the current last message and what comes after it
goes_forward_strict(target_index, state) == target_index > Len(state) - 1

goes_forward(target_index, state) == target_index >= Len(state) - 1

\* the messages a goto call may carry: none, plain, already framed
GotoMessages == { <<>>, <<"try X">>, <<"<time_travel>", "try X", "</time_travel>">> }

\* the user message of a goto with a new direction: the notice, the message
\* that is abandoned, and the new direction (framing tags are not nested)
time_travel_content(original, message) ==
    [py |-> "str",
     v  |-> << "<system_message>", "GOTO tool used. Conversation reset",
               "<original_message_to_be_ignored>", original,
               "<time_travel_message>",
               IF Len(message) = 3 THEN <<message[2]>> ELSE message >>]

\* the entry of the time-travel history that a goto writes
record_time_travel_dropped(history, from_count, to_count) == history

record_time_travel(history, from_count, to_count) ==
    Append(history, [from_message_count |-> from_count, to_message_count |-> to_count])

\* handle_goto(position, message, runtime_context): the process, its
\* time-travel history and the tool result after the call
handle_goto(p, history, position, message) ==
    LET rejected(text) == [proc |-> p, history |-> history,
                           result |-> [is_error |-> TRUE, content |-> text]]
        found == find_position_by_id(p.state, position)
        target_index == found[1]
    IN
    IF position.py # "str" \/ ~startswith(position.v, MsgPrefix)
    THEN rejected("Invalid message ID")
    ELSE IF found = <<>> THEN rejected("Could not find message")
    ELSE IF goes_forward(target_index, p.state) THEN rejected("Cannot go forward in time")
    ELSE LET truncated == [p EXCEPT !.state = SubSeq(@, 1, target_index)]
             original == p.state[target_index + 1].content
         IN  [ proc    |-> IF Len(message) = 0 THEN truncated
                           ELSE append_message_with_id(truncated, "user",
                                    time_travel_content(original, message)),
               history |-> record_time_travel(history, Len(p.state), target_index + 1),
               result  |-> [is_error |-> FALSE,
                            content  |-> IF Len(message) = 0 THEN "Conversation reset to message"
                                         ELSE "Conversation reset to message. Added time travel message"] ]

\* the positions tried: the ids msg_0 .. of a longest log, msg_99, a word and
\* the empty string
Positions ==
    { Str(MsgPrefix \o str(n)) : n \in 0..(MaxMessages - 1) }
    \cup { Str(MsgPrefix \o str(99)), Str(<<"i", "n", "v", "a", "l", "i", "d">>), Str(<<>>) }

InitGoto ==
    /\ proc = NewProcess({}) /\ ref = NewProcess({})
    /\ ops = 0 /\ cb_raised = FALSE
    /\ child = <<>> /\ attrs = [parent |-> NoAttrs, child |-> NoAttrs]
    /\ call = [op |-> "none", pc |-> "idle", successes |-> 0]
    /\ linked_programs = <<>> /\ programs = <<>>
    /\ time_travel_history = <<>> /\ disk = <<>>

goto_frame == <<ref, cb_raised, child, attrs, linked_programs, programs, disk>>

\* a message is appended to the log (user and assistant messages take turns):
\* through the helper, or as the executor appends it, without an id
GotoAppend ==
    /\ Len(proc.state) < MaxMessages
    /\ \E with_id \in BOOLEAN :
           LET role == IF Len(proc.state) % 2 = 0 THEN "user" ELSE "assistant" IN
           proc' = IF with_id THEN append_message_with_id(proc, role, Str(<<role>>))
                   ELSE append_message(proc, [role |-> role, content |-> Str(<<role>>),
                                              goto_id |-> [py |-> "NoneType", v |-> <<>>]])
    /\ UNCHANGED <<ops, call, time_travel_history, goto_frame>>

\* await handle_goto(position, message, runtime_context)
Goto ==
    /\ ops < MaxGotos /\ ops' = ops + 1
    /\ \E position \in Positions, message \in GotoMessages :
           LET r == handle_goto(proc, time_travel_history, position, message)
           IN  /\ proc' = r.proc
               /\ time_travel_history' = r.history
               /\ call' = [op |-> "goto", pc |-> "idle", position |-> position,
                           message |-> message, result |-> r.result,
                           successes |-> call.successes
                                         + (IF r.result.is_error THEN 0 ELSE 1)]
    /\ UNCHANGED goto_frame

NextGoto == GotoAppend \/ Goto

SpecGoto == InitGoto /\ [][NextGoto]_vars

(* ------------------------------ compile ------------------------------- *)
\* the program objects, and the names under which one program links another
ProgramIds == {"main", "expert"}
LinkNames == {"a", "b"}

\* the values of LLMProgram.linked_programs: the path of a program file (a
\* str), another LLMProgram object, the program from_toml made of a file, and
\* a value of any other type
LinkValues ==
    { [kind |-> "path", v |-> f] : f \in {"expert.toml", "missing.toml"} }
    \cup { [kind |-> "program", v |-> "expert"], [kind |-> "other", v |-> "int"] }

\* LLMProgram.__init__: model_name and provider are given; the system prompt
\* comes as text, as a file, or not at all; tools is a list of functions
LLMProgram(system_prompt, system_prompt_file, function_tools, linked) ==
    [ compiled            |-> FALSE,
      system_prompt       |-> system_prompt,
      _system_prompt_file |-> system_prompt_file,
      _function_tools     |-> function_tools,
      enabled             |-> <<>>,
      linked_programs     |-> linked ]

\* the ways to say the system prompt at construction (both at once is refused
\* by the constructor)
PromptConfigs ==
    { <<Str(<<>>), None>>, <<Str(<<"text">>), None>>,
      <<Str(<<>>), "prompt.md">>, <<Str(<<>>), "missing.md">> }

\* _process_function_tools: the name of every function tool is enabled once
RECURSIVE _process_function_tools(_, _)
_process_function_tools(enabled, function_tools) ==
    IF Len(function_tools) = 0 THEN enabled
    ELSE LET tool_name == Head(function_tools)
         IN  _process_function_tools(
                 IF \E i \in 1..Len(enabled) : enabled[i] = tool_name THEN enabled
                 ELSE Append(enabled, tool_name),
                 Tail(function_tools))

\* line 172: the program is marked as compiled
mark_compiled_missing(P) == P

mark_compiled(P) == [P EXCEPT !.compiled = TRUE]

RECURSIVE _compile_self(_, _, _)
RECURSIVE _compile_linked_programs(_, _, _, _, _)

\* LLMProgram._compile_linked_programs, from the i-th linked program on: the
\* program objects after it, the map built so far, and the exception if one
\* leaves the loop.  A linked program is a pair <<name, value>>.
_compile_linked_programs(heap, self, i, compiled_linked, stack) ==
    LET linked == heap[self].linked_programs IN
    IF i > Len(linked)
    THEN [heap |-> [heap EXCEPT ![self].linked_programs = compiled_linked],
          raised |-> None]
    ELSE LET name == linked[i][1]
             program_or_path == linked[i][2]
             next(h, entry) == _compile_linked_programs(
                                   h, self, i + 1,
                                   IF entry = <<>> THEN compiled_linked
                                   ELSE Append(compiled_linked, <<name, entry[1]>>),
                                   stack)
         IN  CASE program_or_path.kind = "path" ->
                      IF program_or_path.v = "missing.toml" THEN next(heap, <<>>)
                      ELSE next(heap, << [kind |-> "loaded", v |-> program_or_path.v] >>)
               [] program_or_path.kind = "loaded" -> next(heap, <<program_or_path>>)
               [] program_or_path.kind = "program" ->
                      LET r == IF heap[program_or_path.v].compiled
                               THEN [heap |-> heap, raised |-> None]
                               ELSE _compile_self(heap, program_or_path.v, stack)
                      IN  IF r.raised # None THEN r
                          ELSE next(r.heap, <<program_or_path>>)
               [] OTHER -> [heap |-> heap, raised |-> "ValueError"]

\* LLMProgram._compile_self on the program object self: the program objects
\* after it and the exception it raises, if any.  stack holds the programs
\* whose _compile_self is in progress: a program that links back to one of
\* them recurses until Python raises RecursionError.
_compile_self(heap, self, stack) ==
    LET P == heap[self] IN
    IF P.compiled THEN [heap |-> heap, raised |-> None]
    ELSE IF self \in stack THEN [heap |-> heap, raised |-> "RecursionError"]
    ELSE IF P._system_prompt_file = "missing.md" /\ P.system_prompt = Str(<<>>)
    THEN [heap |-> heap, raised |-> "FileNotFoundError"]
    ELSE LET read == IF P._system_prompt_file # None /\ P.system_prompt = Str(<<>>)
                     THEN [P EXCEPT !.system_prompt = Str(<<"text of", P._system_prompt_file>>)]
                     ELSE P
         IN  IF read.system_prompt = Str(<<>>)
             THEN [heap |-> [heap EXCEPT ![self] = read], raised |-> "ValueError"]
             ELSE LET tools == [read EXCEPT !.enabled =
                                   _process_function_tools(@, read._function_tools)]
                      r == _compile_linked_programs([heap EXCEPT ![self] = tools],
                                                    self, 1, <<>>, stack \cup {self})
                  IN  IF r.raised # None THEN r
                      ELSE [heap |-> [r.heap EXCEPT ![self] = mark_compiled(@)],
                            raised |-> None]

\* LLMProgram.add_linked_program(name, program): dict assignment
add_linked_program(P, name, program) ==
    LET linked == P.linked_programs
        entry == <<name, [kind |-> "program", v |-> program]>>
    IN  [P EXCEPT !.linked_programs =
            IF \E i \in 1..Len(linked) : linked[i][1] = name
            THEN [i \in 1..Len(linked) |-> IF linked[i][1] = name THEN entry ELSE linked[i]]
            ELSE Append(linked, entry)]

\* the linked programs given to the constructor of main: none, one or two
InitialLinks ==
    {<<>>} \cup { << <<"a", x>> >> : x \in LinkValues }
           \cup { << <<"a", x>>, <<"b", y>> >> : x, y \in LinkValues }

InitCompile ==
    /\ proc = NewProcess({}) /\ ref = NewProcess({})
    /\ ops = 0 /\ cb_raised = FALSE
    /\ child = <<>> /\ attrs = [parent |-> NoAttrs, child |-> NoAttrs]
    /\ call = NoCall
    /\ linked_programs = <<>> /\ time_travel_history = <<>> /\ disk = <<>>
    /\ \E m, e \in PromptConfigs, function_tools \in {<<>>, <<"f", "f">>},
          linked \in InitialLinks :
           programs = [main   |-> LLMProgram(m[1], m[2], function_tools, linked),
                       expert |-> LLMProgram(e[1], e[2], <<>>, <<>>)]

compile_frame == <<proc, ref, cb_raised, child, attrs, linked_programs, time_travel_history, disk>>

\* program.compile()
Compile ==
    /\ ops < MaxOps /\ ops' = ops + 1
    /\ \E self \in ProgramIds :
           LET r == _compile_self(programs, self, {})
           IN  /\ programs' = r.heap
               /\ call' = [op |-> "compile", pc |-> "idle", self |-> self,
                           was_compiled |-> programs[self].compiled,
                           outcome |-> IF r.raised = None THEN "returned" ELSE "raised",
                           raised_by |-> r.raised,
                           result |-> IF r.raised = None THEN self ELSE None]
    /\ UNCHANGED compile_frame

\* program.add_linked_program(name, other)
AddLinkedProgram ==
    /\ ops < MaxOps /\ ops' = ops + 1
    /\ \E self \in ProgramIds, name \in LinkNames, program \in ProgramIds :
           /\ programs' = [programs EXCEPT ![self] = add_linked_program(@, name, program)]
           /\ call' = [op |-> "add_linked_program", pc |-> "idle", self |-> self,
                       was_compiled |-> programs[self].compiled,
                       outcome |-> "returned", raised_by |-> None, result |-> self]
    /\ UNCHANGED compile_frame

NextCompile == Compile \/ AddLinkedProgram

SpecCompile == InitCompile /\ [][NextCompile]_vars

(* ------------------------- the program builder ------------------------- *)
\* the value enable_token_efficient_tools writes into the anthropic-beta header
TOKEN_EFFICIENT == "token-efficient-tools-2025-02-19"

\* the aliases of tools["aliases"]: a dictionary from alias to target tool
AliasMaps ==
    { <<>>,
      [a |-> "calculator"],
      [a |-> "calculator", b |-> "read_file"],
      [a |-> "calculator", b |-> "calculator"] }

\* the parameters given to the constructor: none, or a dictionary with or
\* without extra_headers.  A header value is the list of its comma-separated
\* features.
ParameterDicts ==
    { <<>>,
      [extra_headers |-> <<>>],
      [extra_headers |-> [x_other |-> <<"v">>]],
      [extra_headers |-> [anthropic_beta |-> <<"existing-feature">>]],
      [extra_headers |-> [anthropic_beta |-> <<TOKEN_EFFICIENT>>, x_other |-> <<"v">>]] }

\* LLMProgram.__init__ with a tools dictionary: the fields of LLMProgram and
\* provider, parameters, mcp_config_path with mcp_tools (mcp says whether both
\* are given), tools["aliases"] and file_descriptor
ProgramWithTools(provider, parameters, mcp, enabled, aliases, file_descriptor) ==
    [ compiled            |-> FALSE,
      system_prompt       |-> Str(<<"text">>),
      _system_prompt_file |-> None,
      _function_tools     |-> <<>>,
      enabled             |-> enabled,
      linked_programs     |-> <<>>,
      provider            |-> provider,
      parameters          |-> parameters,
      mcp                 |-> mcp,
      aliases             |-> aliases,
      file_descriptor     |-> file_descriptor ]

\* file_descriptor.get("enabled", False)
fd_enabled(P) ==
    "enabled" \in DOMAIN P.file_descriptor /\ P.file_descriptor.enabled

InitBuilder ==
    /\ proc = NewProcess({}) /\ ref = NewProcess({})
    /\ ops = 0 /\ cb_raised = FALSE
    /\ child = <<>> /\ attrs = [parent |-> NoAttrs, child |-> NoAttrs]
    /\ call = NoCall
    /\ linked_programs = <<>> /\ time_travel_history = <<>> /\ disk = <<>>
    /\ \E provider \in {"anthropic", "openai"}, parameters \in ParameterDicts,
          mcp \in BOOLEAN, enabled \in {<<>>, <<"calculator">>},
          aliases \in AliasMaps :
           programs = [main   |-> ProgramWithTools(provider, parameters, mcp,
                                                   enabled, aliases, <<>>),
                       expert |-> ProgramWithTools("anthropic", <<>>, FALSE,
                                                   <<>>, <<>>, <<>>)]

\* what a builder call leaves in the call record
builder_call(op, self, outcome, raised_by) ==
    [op |-> op, pc |-> "idle", self |-> self,
     was_compiled |-> programs[self].compiled,
     before |-> programs[self],
     outcome |-> outcome, raised_by |-> raised_by,
     result |-> IF outcome = "returned" THEN self ELSE None]

\* program.configure_file_descriptor(enabled=...), the other arguments at
\* their defaults
ConfigureFileDescriptor ==
    /\ ops < MaxOps /\ ops' = ops + 1
    /\ \E enabled \in BOOLEAN :
           programs' = [programs EXCEPT !.main.file_descriptor =
               [enabled |-> enabled, max_direct_output_chars |-> 8000,
                default_page_size |-> 4000, max_input_chars |-> 8000,
                page_user_input |-> TRUE, enable_references |-> TRUE]]
    /\ call' = builder_call("configure_file_descriptor", "main", "returned", None)
    /\ UNCHANGED compile_frame

\* program.add_tool(tool): tool is a function, a dictionary with a name, or
\* something else
AddTool ==
    /\ ops < MaxOps /\ ops' = ops + 1
    /\ \E tool \in {[py |-> "function", v |-> "f"],
                    [py |-> "dict", v |-> "read_fd"],
                    [py |-> "dict", v |-> "fd_to_file"],
                    [py |-> "dict", v |-> "spawn"],
                    [py |-> "int", v |-> "1"]} :
           LET P == programs.main IN
           CASE tool.py = "function" ->
                  /\ programs' = [programs EXCEPT !.main._function_tools = Append(@, tool.v)]
                  /\ call' = builder_call("add_tool", "main", "returned", None)
             [] tool.py = "dict" ->
                  /\ programs' = [programs EXCEPT !.main.enabled =
                        IF \E i \in DOMAIN P.enabled : P.enabled[i] = tool.v
                        THEN @ ELSE Append(@, tool.v)]
                  /\ call' = builder_call("add_tool", "main", "returned", None)
             [] OTHER ->
                  /\ programs' = programs
                  /\ call' = builder_call("add_tool", "main", "raised", "ValueError")
    /\ UNCHANGED compile_frame

\* program.enable_token_efficient_tools()
EnableTokenEfficientTools ==
    /\ ops < MaxOps /\ ops' = ops + 1
    /\ LET P       == programs.main
           headers == IF "extra_headers" \in DOMAIN P.parameters
                      THEN P.parameters.extra_headers ELSE <<>>
           names   == DOMAIN headers \cup {"anthropic_beta"}
       IN  programs' = [programs EXCEPT !.main.parameters =
               [extra_headers |->
                   [h \in names |-> IF h = "anthropic_beta"
                                    THEN <<TOKEN_EFFICIENT>> ELSE headers[h]]]]
    /\ call' = builder_call("enable_token_efficient_tools", "main", "returned", None)
    /\ UNCHANGED compile_frame

\* the tools register_system_tools registers for a process with these enabled
\* tools and with linked programs or none: the process has no
\* file_descriptor_enabled attribute before
SystemTools == {"fork", "calculator", "read_file", "read_fd"}

register_system_tools(enabled_tools, has_linked_programs) ==
    LET on(t) == \E i \in DOMAIN enabled_tools : enabled_tools[i] = t
    IN  { t \in SystemTools : on(t) }
            \cup (IF on("spawn") /\ has_linked_programs THEN {"spawn"} ELSE {})
            \cup (IF on("read_fd") /\ on("fd_to_file") THEN {"fd_to_file"} ELSE {})

\* LLMProcess._initialize_tools: the exception it raises, if any
_initialize_tools(P, HAS_MCP) ==
    IF P.mcp /\ ~HAS_MCP THEN "ImportError"
    ELSE IF P.mcp /\ P.provider # "anthropic" THEN "ValueError"
    ELSE None

\* LLMProcess(program=main, linked_programs_instances=...): the constructor
\* reads the tools of the program, initializes them and asks for the client
\* of the provider
CreateProcess ==
    /\ ops < MaxOps /\ ops' = ops + 1
    /\ \E HAS_MCP \in BOOLEAN, linked_programs_instances \in {<<>>, <<"expert">>} :
           LET P      == programs.main
               raised == _initialize_tools(P, HAS_MCP)
               linked ==
                   linked_programs_instances # <<>> \/ P.linked_programs # <<>>
           IN  call' = [op |-> "LLMProcess", pc |-> "idle", self |-> "main",
                        was_compiled |-> P.compiled,
                        before |-> P,
                        outcome |-> IF raised = None THEN "returned" ELSE "raised",
                        raised_by |-> raised,
                        result |-> IF raised = None
                                   THEN [enabled_tools |-> P.enabled,
                                         tools |-> register_system_tools(
                                                       P.enabled, linked),
                                         has_linked_programs |-> linked,
                                         mcp   |-> P.mcp]
                                   ELSE [enabled_tools |-> <<>>, tools |-> {},
                                         has_linked_programs |-> FALSE,
                                         mcp |-> FALSE]]
    /\ UNCHANGED <<programs, compile_frame>>

NextBuilder ==
    \/ ConfigureFileDescriptor \/ AddTool \/ EnableTokenEfficientTools
    \/ Compile \/ CreateProcess

SpecBuilder == InitBuilder /\ [][NextBuilder]_vars

(* ----------------------- the file descriptors -------------------------- *)
\* the length of the longest content, the largest page size and the largest
\* tool output that is handed over as it is
MaxContent == 3
MaxPageSize == 3
MaxDirectOutputChars == 2
\* the number of descriptors a manager is given
MaxDescriptors == 1
\* the number of tool calls on the descriptors
MaxFdOps == 2

\* content is a sequence of characters; "\n" ends a line
Contents == UNION { [1..n -> {"x", "\n"}] : n \in 1..MaxContent }

\* the lines of a content, each with its terminator
RECURSIVE split_lines(_, _)
split_lines(rest, cur) ==
    IF Len(rest) = 0 THEN (IF Len(cur) = 0 THEN <<>> ELSE <<cur>>)
    ELSE IF Head(rest) = "\n"
         THEN <<Append(cur, "\n")>> \o split_lines(Tail(rest), <<>>)
         ELSE split_lines(Tail(rest), Append(cur, Head(rest)))

\* a page that records its first line only
page_of_first_line(content, start_line, end_line) ==
    [content |-> content, start_line |-> start_line, end_line |-> start_line]

\* a page and the lines it holds text of
page_of(content, start_line, end_line) ==
    [content |-> content, start_line |-> start_line, end_line |-> end_line]

\* the pagination rule, from line n on: whole lines are gathered while they
\* fit into the page; a line longer than a page is cut at the page size.  cur
\* is the page being filled and start the line it began with.
RECURSIVE paginate(_, _, _, _, _)
paginate(lines, n, page_size, cur, start) ==
    IF n > Len(lines)
    THEN IF Len(cur) = 0 THEN <<>>
         ELSE << page_of(cur, start, n - 1) >>
    ELSE LET line == lines[n] IN
         IF Len(cur) + Len(line) <= page_size
         THEN paginate(lines, n + 1, page_size, cur \o line,
                       IF Len(cur) = 0 THEN n ELSE start)
         ELSE IF Len(cur) > 0
         THEN << page_of(cur, start, n - 1) >>
                  \o paginate(lines, n, page_size, <<>>, n)
         ELSE << page_of(SubSeq(line, 1, page_size), n, n) >>
                  \o paginate([lines EXCEPT ![n] = SubSeq(line, page_size + 1, Len(line))],
                              n, page_size, <<>>, n)

\* FileDescriptorManager(default_page_size, max_direct_output_chars): no
\* descriptors, and the tools whose output is never wrapped
FileDescriptorManager(default_page_size, max_direct_output_chars) ==
    [ default_page_size       |-> default_page_size,
      max_direct_output_chars |-> max_direct_output_chars,
      file_descriptors        |-> <<>>,
      fd_related_tools        |-> {"read_fd", "fd_to_file"} ]

\* a manager that stores the content as one page, whatever the page size
create_fd_content_one_page(manager, content) ==
    LET lines == split_lines(content, <<>>)
    IN  [manager EXCEPT !.file_descriptors =
            Append(@, [content     |-> content,
                       page_size   |-> manager.default_page_size,
                       total_pages |-> 1,
                       total_lines |-> Len(lines),
                       pages       |-> << page_of(content, 1, Len(lines)) >>])]

\* FileDescriptorManager.create_fd_content: the descriptor fd:<n> of the
\* content, paginated with the page size of the manager
create_fd_content(manager, content) ==
    LET lines == split_lines(content, <<>>)
        pages == paginate(lines, 1, manager.default_page_size, <<>>, 1)
    IN  [manager EXCEPT !.file_descriptors =
            Append(@, [content     |-> content,
                       page_size   |-> manager.default_page_size,
                       total_pages |-> Len(pages),
                       total_lines |-> Len(lines),
                       pages       |-> pages])]

\* FileDescriptorManager.read_fd_content in page mode: the page or the whole
\* content with its line range; KeyError for an unknown descriptor and
\* ValueError for a page that does not exist
read_fd_content(manager, fd_id, read_all, start) ==
    IF fd_id \notin DOMAIN manager.file_descriptors
    THEN [raised |-> "KeyError", content |-> <<>>, lines |-> <<0, 0>>]
    ELSE LET fd == manager.file_descriptors[fd_id] IN
         IF read_all
         THEN [raised |-> None, content |-> fd.content, lines |-> <<1, fd.total_lines>>]
         ELSE IF start \notin 1..fd.total_pages
         THEN [raised |-> "ValueError", content |-> <<>>, lines |-> <<0, 0>>]
         ELSE [raised |-> None, content |-> fd.pages[start].content,
               lines |-> <<fd.pages[start].start_line, fd.pages[start].end_line>>]

\* read_fd_tool: the ToolResult around what the manager returns or raises
read_fd_tool(fd, read_all, start, has_fd_manager, manager) ==
    IF ~has_fd_manager
    THEN [is_error |-> TRUE, type |-> "no_fd_manager", content |-> <<>>, lines |-> <<0, 0>>]
    ELSE LET r == read_fd_content(manager, fd, read_all, start) IN
         CASE r.raised = None ->
                [is_error |-> FALSE, type |-> "fd_content", content |-> r.content,
                 lines |-> r.lines]
           [] r.raised = "KeyError" ->
                [is_error |-> TRUE, type |-> "not_found", content |-> <<>>, lines |-> <<0, 0>>]
           [] r.raised = "ValueError" ->
                [is_error |-> TRUE, type |-> "invalid_page", content |-> <<>>, lines |-> <<0, 0>>]

\* the paths fd_to_file writes to
Paths == {"out.txt"}

\* a policy that lets exist_ok = False overwrite a file that is there
refuses_existing_never(exists, exist_ok) == FALSE

\* write_fd_to_file: a file that is there is refused without exist_ok
refuses_existing(exists, exist_ok) == exists /\ ~exist_ok

\* FileDescriptorManager.write_fd_to_file_content: the envelope it returns
\* and the files after it; KeyError for an unknown descriptor
write_fd_to_file_content(manager, on_disk, fd_id, file_path, mode, create, exist_ok) ==
    IF fd_id \notin DOMAIN manager.file_descriptors
    THEN [raised |-> "KeyError", type |-> "none", disk |-> on_disk]
    ELSE LET content == manager.file_descriptors[fd_id].content
             exists  == Len(on_disk[file_path]) > 0
         IN  IF refuses_existing(exists, exist_ok)
             THEN [raised |-> None, type |-> "file_exists", disk |-> on_disk]
             ELSE IF ~exists /\ ~create
             THEN [raised |-> None, type |-> "file_not_found", disk |-> on_disk]
             ELSE [raised |-> None, type |-> "fd_file_result",
                   disk |-> [on_disk EXCEPT ![file_path] =
                       IF mode = "append" /\ exists THEN <<@[1] \o content>>
                       ELSE <<content>>]]

\* fd_to_file_tool: the ToolResult around what the manager returns or raises
fd_to_file_tool(fd, file_path, mode, create, exist_ok, has_fd_manager, manager, on_disk) ==
    IF ~has_fd_manager
    THEN [is_error |-> TRUE, type |-> "no_fd_manager", disk |-> on_disk]
    ELSE LET r == write_fd_to_file_content(manager, on_disk, fd, file_path,
                                           mode, create, exist_ok)
         IN  IF r.raised = "KeyError"
             THEN [is_error |-> TRUE, type |-> "not_found", disk |-> on_disk]
             ELSE [is_error |-> FALSE, type |-> r.type, disk |-> r.disk]

\* the process has a manager or not; the caller holds one content, the file
\* is there or not
InitFd ==
    /\ proc = NewProcess({}) /\ ref = NewProcess({})
    /\ ops = 0 /\ cb_raised = FALSE /\ child = <<>>
    /\ linked_programs = <<>> /\ programs = <<>> /\ time_travel_history = <<>>
    /\ \E page_size \in 1..MaxPageSize, has_fd_manager \in BOOLEAN :
           attrs = [parent |-> [allow_fork |-> "unset",
                                fd_manager |-> IF has_fd_manager
                                    THEN <<FileDescriptorManager(page_size,
                                                                 MaxDirectOutputChars)>>
                                    ELSE <<>>],
                    child |-> NoAttrs]
    /\ \E content \in Contents :
           call = [op |-> "none", pc |-> "idle", content |-> content]
    /\ disk \in [Paths -> {<<>>, << <<"o">> >>}]

fd_frame == <<ref, cb_raised, child, linked_programs, programs, time_travel_history>>

\* process.fd_manager.create_fd_content(content)
CreateFdContent ==
    /\ attrs.parent.fd_manager # <<>>
    /\ Len(attrs.parent.fd_manager[1].file_descriptors) < MaxDescriptors
    /\ attrs' = [attrs EXCEPT !.parent.fd_manager =
                    <<create_fd_content(@[1], call.content)>>]
    /\ call' = [op |-> "create_fd", pc |-> "idle", content |-> call.content]
    /\ UNCHANGED <<proc, ops, disk, fd_frame>>

\* the descriptors a tool call can name: those of the manager and one more
FdIds == 1..(MaxDescriptors + 1)

\* the read_fd tool with fd, read_all and start, in page mode
ReadFd ==
    /\ ops < MaxFdOps /\ ops' = ops + 1
    /\ \E fd \in FdIds, read_all \in BOOLEAN, start \in 1..(MaxContent + 1) :
           /\ fd <= (IF attrs.parent.fd_manager = <<>> THEN 1
                     ELSE Len(attrs.parent.fd_manager[1].file_descriptors) + 1)
           /\ read_all => start = 1
           /\ start <= (IF attrs.parent.fd_manager # <<>>
                           /\ fd \in DOMAIN attrs.parent.fd_manager[1].file_descriptors
                        THEN attrs.parent.fd_manager[1].file_descriptors[fd].total_pages + 1
                        ELSE 1)
           /\ call' = [op |-> "read_fd", pc |-> "idle", content |-> call.content,
                       fd |-> fd, read_all |-> read_all, start |-> start,
                       result |-> read_fd_tool(fd, read_all, start,
                                     attrs.parent.fd_manager # <<>>,
                                     IF attrs.parent.fd_manager = <<>>
                                     THEN FileDescriptorManager(1, 1)
                                     ELSE attrs.parent.fd_manager[1])]
    /\ UNCHANGED <<proc, attrs, disk, fd_frame>>

\* the fd_to_file tool
FdToFile ==
    /\ ops < MaxFdOps /\ ops' = ops + 1
    /\ \E fd \in FdIds, file_path \in Paths, mode \in {"write", "append"},
          create \in BOOLEAN, exist_ok \in BOOLEAN :
           LET has == attrs.parent.fd_manager # <<>>
               r   == fd_to_file_tool(fd, file_path, mode, create, exist_ok, has,
                                      IF has THEN attrs.parent.fd_manager[1]
                                      ELSE FileDescriptorManager(1, 1), disk)
           IN  /\ fd <= (IF has THEN Len(attrs.parent.fd_manager[1].file_descriptors) + 1
                         ELSE 1)
               /\ disk' = r.disk
               /\ call' = [op |-> "fd_to_file", pc |-> "idle", content |-> call.content,
                           fd |-> fd, file_path |-> file_path, mode |-> mode,
                           create |-> create, exist_ok |-> exist_ok,
                           before |-> disk,
                           result |-> [is_error |-> r.is_error, type |-> r.type]]
    /\ UNCHANGED <<proc, attrs, fd_frame>>

\* lines 123-147 of the executor for one tool_use block: the tool returns the
\* content the caller holds and the result goes into the messages
ToolCall ==
    /\ ops < MaxFdOps /\ ops' = ops + 1
    /\ \E tool_name \in {"calculator", "read_fd"} :
           LET result == [is_error |-> FALSE, content |-> call.content] IN
           /\ proc' = append_message(proc, tool_result_message(<<ops, 1>>, result))
           /\ call' = [op |-> "call_tool", pc |-> "idle", content |-> call.content,
                       tool_name |-> tool_name, result |-> result]
    /\ UNCHANGED <<attrs, disk, fd_frame>>

NextFd == CreateFdContent \/ ReadFd \/ FdToFile \/ ToolCall

SpecFd == InitFd /\ [][NextFd]_vars

(* ------------------------ external (MCP) tools ------------------------ *)
\* what aggregator.list_tools(return_server_mapping=True) may answer: the
\* servers in the order of the dictionary, each with the names of its tools
ToolsMaps ==
    { <<>>,
      << [server |-> "everything", tools |-> <<"add">>] >>,
      << [server |-> "everything", tools |-> <<"add", "echo">>] >>,
      << [server |-> "everything", tools |-> <<"add">>],
         [server |-> "time", tools |-> <<"current">>] >> }

\* MCPManager.__init__: no aggregator yet
MCPManager(config_path) ==
    [config_path |-> config_path, aggregator |-> <<>>, initialized |-> FALSE]

\* MCPManager.is_valid_configuration
is_valid_configuration(manager) == manager.config_path # None

\* MCPManager.initialize: raised is the exception of the import or of
\* ServerRegistry.from_config, if any; tools_map is what the servers of the
\* configuration offer
initialize(manager, raised, tools_map) ==
    IF ~is_valid_configuration(manager)
    THEN [manager |-> manager, result |-> FALSE]
    ELSE IF raised # None
    THEN [manager |-> manager, result |-> FALSE]
    ELSE [manager |-> [manager EXCEPT !.aggregator = << [tools_map |-> tools_map] >>,
                                      !.initialized = TRUE],
          result |-> TRUE]

\* the registrations of the tools of one server
server_registrations(server, tools) ==
    [i \in DOMAIN tools |-> [name |-> <<server, tools[i]>>, server |-> server,
                             tool_name |-> tools[i]]]

\* the loop of get_tool_registrations over tools_map.items()
RECURSIVE registrations_of(_)
registrations_of(tools_map) ==
    IF tools_map = <<>> THEN <<>>
    ELSE server_registrations(tools_map[1].server, tools_map[1].tools)
             \o registrations_of(Tail(tools_map))

\* MCPManager.get_tool_registrations
get_tool_registrations(manager) ==
    IF ~manager.initialized \/ manager.aggregator = <<>> THEN <<>>
    ELSE registrations_of(manager.aggregator[1].tools_map)

\* what a call of aggregator.call_tool comes to: a result, flagged or not,
\* or an exception
ConnectorOutcomes ==
    { [raised |-> None, isError |-> FALSE, content |-> <<"c">>],
      [raised |-> None, isError |-> TRUE, content |-> <<"c">>],
      [raised |-> "ConnectionError", isError |-> FALSE, content |-> <<>>] }

\* a handler without the try: the exception of the connector leaves it
tool_handler_unguarded(display_name, connector) ==
    IF connector.raised # None
    THEN [raised |-> connector.raised, content |-> <<>>, is_error |-> FALSE]
    ELSE [raised |-> None, content |-> connector.content, is_error |-> connector.isError]

\* the handler create_mcp_tool_handler makes: the ToolResult it returns
\* (raised says which exception leaves it, None for none)
tool_handler(display_name, connector) ==
    IF connector.raised # None
    THEN [raised |-> None, is_error |-> TRUE,
          content |-> <<"Error calling MCP tool", display_name, connector.raised>>]
    ELSE [raised |-> None, content |-> connector.content, is_error |-> connector.isError]

\* a manager with or without a configuration path; the caller holds the
\* registrations it was given last
InitMcp ==
    /\ proc = NewProcess({}) /\ ref = NewProcess({})
    /\ ops = 0 /\ cb_raised = FALSE /\ child = <<>>
    /\ linked_programs = <<>> /\ programs = <<>> /\ time_travel_history = <<>>
    /\ disk = <<>> /\ call = NoCall
    /\ \E config_path \in {None, "mcp_servers.json"} :
           attrs = [parent |-> [allow_fork |-> "unset", fd_manager |-> <<>>,
                                mcp_manager |-> MCPManager(config_path),
                                registrations |-> <<>>],
                    child |-> NoAttrs]

mcp_frame ==
    <<proc, ref, cb_raised, child, linked_programs, programs, time_travel_history, disk>>

\* await manager.initialize(tool_registry)
McpInitialize ==
    /\ ops < MaxOps /\ ops' = ops + 1
    /\ \E raised \in {None, "ImportError", "FileNotFoundError"}, tools_map \in ToolsMaps :
           LET r == initialize(attrs.parent.mcp_manager, raised, tools_map) IN
           /\ attrs' = [attrs EXCEPT !.parent.mcp_manager = r.manager]
           /\ call' = [op |-> "initialize", pc |-> "idle", outcome |-> "returned",
                       result |-> r.result]
    /\ UNCHANGED mcp_frame

\* regs = await manager.get_tool_registrations()
GetToolRegistrations ==
    /\ ops < MaxOps /\ ops' = ops + 1
    /\ LET regs == get_tool_registrations(attrs.parent.mcp_manager) IN
       /\ attrs' = [attrs EXCEPT !.parent.registrations = regs]
       /\ call' = [op |-> "get_tool_registrations", pc |-> "idle",
                   outcome |-> "returned", result |-> regs]
    /\ UNCHANGED mcp_frame

\* await handler(**kwargs) for one of the registrations
CallMcpTool ==
    /\ ops < MaxOps /\ ops' = ops + 1
    /\ \E i \in DOMAIN attrs.parent.registrations, connector \in ConnectorOutcomes :
           LET reg == attrs.parent.registrations[i]
               r   == tool_handler(reg.name, connector)
           IN  call' = [op |-> "tool_handler", pc |-> "idle", name |-> reg.name,
                        connector |-> connector,
                        outcome |-> IF r.raised = None THEN "returned" ELSE "raised",
                        result |-> [content |-> r.content, is_error |-> r.is_error]]
    /\ UNCHANGED <<attrs, mcp_frame>>

NextMcp == McpInitialize \/ GetToolRegistrations \/ CallMcpTool

SpecMcp == InitMcp /\ [][NextMcp]_vars

(* ------------------------ the program registry ----------------------- *)
\* the TOML files: a path has no file (<<>>) or a file, given as the list of
\* its [linked_programs] entries
TomlPaths == {"a.toml", "b.toml", "c.toml"}

LinkGraphs ==
    { [p \in TomlPaths |-> IF p = "c.toml" THEN <<>> ELSE << <<>> >>],
      [p \in TomlPaths |->
          IF p = "a.toml" THEN << << [name |-> "x", path |-> "b.toml"] >> >>
          ELSE IF p = "b.toml" THEN << <<>> >> ELSE <<>>],
      [p \in TomlPaths |->
          IF p = "a.toml" THEN << << [name |-> "x", path |-> "b.toml"] >> >>
          ELSE IF p = "b.toml" THEN << << [name |-> "y", path |-> "a.toml"] >> >>
          ELSE <<>>],
      [p \in TomlPaths |->
          IF p = "a.toml" THEN << << [name |-> "x", path |-> "c.toml"] >> >>
          ELSE IF p = "b.toml" THEN << <<>> >> ELSE <<>>] }

\* the threads that call from_toml
Threads == {"t1", "t2"}

\* a linked_programs value that is a program object
Obj(id) == [py |-> "LLMProgram", v |-> id]

\* ProgramRegistry.__new__: one instance with an empty dictionary, and no
\* program object yet
ProgramRegistry == [objects |-> <<>>, _compiled_programs |-> <<>>]

\* ProgramRegistry.contains
contains(registry, path) == path \in DOMAIN registry._compiled_programs

\* ProgramRegistry.register
register(registry, path, program) ==
    [registry EXCEPT !._compiled_programs =
        [p \in DOMAIN @ \cup {path} |-> IF p = path THEN program ELSE @[p]]]

\* LLMProgram._compile_single_program: a new program object whose linked
\* programs are the paths of the file
_compile_single_program(links) ==
    [compiled |-> FALSE,
     linked_programs |-> [i \in DOMAIN links |-> [name |-> links[i].name,
                                                  value |-> Str(links[i].path)]]]

\* a thread that is in no call
NoLoad == [stack |-> <<>>, outcome |-> "none", path |-> None, program |-> 0, loads |-> 0]

\* the frame of the call a thread is in
Top(th) == th.stack[Len(th.stack)]

\* from_toml returns program to its caller: to the loop of
\* _process_toml_linked_programs of the frame below, which stores it under
\* the name at hand, or to the thread
from_toml_return(registry, th, program) ==
    LET below == SubSeq(th.stack, 1, Len(th.stack) - 1) IN
    IF below = <<>>
    THEN [registry |-> registry,
          th |-> [th EXCEPT !.stack = <<>>, !.outcome = "returned", !.program = program]]
    ELSE LET f == below[Len(below)]
             i == f.next
         IN  [registry |-> [registry EXCEPT
                     !.objects[f.program].linked_programs[i].value = Obj(program)],
              th |-> [th EXCEPT !.stack =
                         [below EXCEPT ![Len(below)].next = i + 1]]]

\* the registry with its programs, the threads, and a record of the writes
\* to each entry and of the programs handed to callers (kept in ref)
InitRegistry ==
    /\ proc = NewProcess({}) /\ cb_raised = FALSE /\ child = <<>>
    /\ attrs = [parent |-> NoAttrs, child |-> NoAttrs]
    /\ linked_programs = <<>> /\ time_travel_history = <<>>
    /\ ops = 0
    /\ disk \in LinkGraphs
    /\ programs = ProgramRegistry
    /\ call = [t \in Threads |-> NoLoad]
    /\ ref = [writes |-> [p \in TomlPaths |-> 0], returned |-> {}]

registry_frame == <<proc, cb_raised, child, attrs, linked_programs, time_travel_history, disk>>

\* LLMProgram.from_toml(path) is called with include_linked at its default:
\* resolve_path (line 682)
LoadBegin(t) ==
    /\ ops < MaxOps /\ ops' = ops + 1
    /\ call[t].stack = <<>>
    /\ \E path \in {"a.toml", "b.toml"} :
           call' = [call EXCEPT ![t] =
               [stack |-> << [path |-> path, pc |-> "contains", program |-> 0, next |-> 1] >>,
                outcome |-> "running", path |-> path, program |-> 0,
                loads |-> call[t].loads + 1]]
    /\ UNCHANGED <<programs, ref, registry_frame>>

\* lines 683-686: the registry is asked, and answers with its entry
CheckRegistry(t) ==
    /\ call[t].stack # <<>> /\ Top(call[t]).pc = "contains"
    /\ LET f == Top(call[t]) IN
       IF contains(programs, f.path)
       THEN LET r == from_toml_return(programs, call[t],
                                      programs._compiled_programs[f.path])
            IN  /\ programs' = r.registry
                /\ call' = [call EXCEPT ![t] = r.th]
                /\ ref' = IF r.th.stack = <<>>
                          THEN [ref EXCEPT !.returned = @ \cup {<<f.path, r.th.program>>}]
                          ELSE ref
       ELSE /\ call' = [call EXCEPT ![t].stack[Len(call[t].stack)].pc = "compile"]
            /\ UNCHANGED <<programs, ref>>
    /\ UNCHANGED <<ops, registry_frame>>

\* line 689: the program is made of the file
CompileSingleProgram(t) ==
    /\ call[t].stack # <<>> /\ Top(call[t]).pc = "compile"
    /\ LET f == Top(call[t]) IN
       /\ programs' = [programs EXCEPT !.objects =
                          Append(@, _compile_single_program(disk[f.path][1]))]
       /\ call' = [call EXCEPT ![t].stack[Len(call[t].stack)] =
                      [f EXCEPT !.pc = "register", !.program = Len(programs.objects) + 1]]
    /\ UNCHANGED <<ops, ref, registry_frame>>

\* line 690: the program is registered
Register(t) ==
    /\ call[t].stack # <<>> /\ Top(call[t]).pc = "register"
    /\ LET f == Top(call[t]) IN
       /\ programs' = register(programs, f.path, f.program)
       /\ ref' = [ref EXCEPT !.writes[f.path] = @ + 1]
       /\ call' = [call EXCEPT ![t].stack[Len(call[t].stack)].pc = "links"]
    /\ UNCHANGED <<ops, registry_frame>>

\* lines 693-694 and _process_toml_linked_programs: the next entry that is a
\* path is resolved and loaded by from_toml; a path without a file raises
\* FileNotFoundError, which leaves every from_toml of the thread
ProcessLinkedPrograms(t) ==
    /\ call[t].stack # <<>> /\ Top(call[t]).pc = "links"
    /\ LET f == Top(call[t])
           entries == programs.objects[f.program].linked_programs
       IN  /\ f.next <= Len(entries)
           /\ IF entries[f.next].value.py # "str"
              THEN call' = [call EXCEPT ![t].stack[Len(call[t].stack)].next = f.next + 1]
              ELSE IF disk[entries[f.next].value.v] = <<>>
              THEN call' = [call EXCEPT ![t].stack = <<>>, ![t].outcome = "raised"]
              ELSE call' = [call EXCEPT ![t].stack =
                               Append(@, [path |-> entries[f.next].value.v,
                                          pc |-> "contains", program |-> 0, next |-> 1])]
    /\ UNCHANGED <<ops, programs, ref, registry_frame>>

\* lines 696-697: after the last entry the program is marked and returned
MarkCompiled(t) ==
    /\ call[t].stack # <<>> /\ Top(call[t]).pc = "links"
    /\ LET f == Top(call[t]) IN
       /\ f.next > Len(programs.objects[f.program].linked_programs)
       /\ LET r == from_toml_return([programs EXCEPT !.objects[f.program].compiled = TRUE],
                                    call[t], f.program)
          IN  /\ programs' = r.registry
              /\ call' = [call EXCEPT ![t] = r.th]
              /\ ref' = IF r.th.stack = <<>>
                        THEN [ref EXCEPT !.returned = @ \cup {<<f.path, f.program>>}]
                        ELSE ref
    /\ UNCHANGED <<ops, registry_frame>>

NextRegistry ==
    \E t \in Threads :
        \/ LoadBegin(t) \/ CheckRegistry(t) \/ CompileSingleProgram(t)
        \/ Register(t) \/ ProcessLinkedPrograms(t) \/ MarkCompiled(t)

SpecRegistry == InitRegistry /\ [][NextRegistry]_vars

(* ---------------------------- properties ------------------------------ *)
\* the call of run (or of the executor) is over
RunOver(p) == p.pc = "idle" /\ p.outcome # "none"

Returned(p) == p.pc = "idle" /\ p.outcome = "returned"

\* the last response of the call asked for tools and all of them were
\* dispatched (lines 148-149 were reached)
DispatchComplete(p) ==
    /\ p.n_responses > 0 /\ has_tool_calls(p.response)
    /\ p.pc \in {"call", "idle"} /\ ~Raised(p)

Range(f) == {f[i] : i \in DOMAIN f}

\* the tool_use blocks of a response, in document order
tool_uses(content) == SelectSeq(content, LAMBDA b : b.type = "tool_use")

\* C1: after a provider response without a tool_use block the run is over,
\* it returned, and the run stop reason is the stop reason of that response
\* (never "max_iterations"), on whichever iteration the response arrives.
C1_StopReasonOfFinalResponse ==
    (proc.n_responses > 0 /\ ~has_tool_calls(proc.response)) =>
        /\ Returned(proc)
        /\ proc.run_stop_reason = proc.stop_reason
        /\ proc.run_stop_reason # "max_iterations"

C3_ToolStartThenEndOrError ==
    (RunOver(proc) /\ {"on_tool_start", "on_tool_end"} \subseteq proc.callbacks) =>
        \A i \in DOMAIN proc.events :
            proc.events[i].ev = "on_tool_start" =>
                \/ \E j \in DOMAIN proc.events :
                       /\ j > i /\ proc.events[j].ev = "on_tool_end"
                       /\ proc.events[j].id = proc.events[i].id
                \/ proc.run_stop_reason = "error"

\* C4: when the provider request fails, run raises to its caller and the run
\* stop reason is "error".
C4_ProviderErrorStopReason ==
    proc.raised_by = "provider" =>
        (proc.outcome = "raised" /\ proc.run_stop_reason = "error")

\* the step from p to q is the return of a handler with an error envelope
ErrorEnvelopeReturned(p, q) ==
    /\ p.pc = "tool" /\ q.last_tool # p.last_tool /\ q.last_tool.outcome = "err"

\* the tool-result message the code builds for that envelope
error_result_message(p) ==
    tool_result_message(p.response[p.idx].id, tool_result(p.response[p.idx].name, "err"))

\* C5: a handler that returns an error envelope does not end the run: the
\* step does not raise, the envelope becomes the tool_result of its
\* tool_use id, and the run goes on to the next tool use, to the next
\* provider request, or ends at the iteration ceiling; and once all tool
\* uses of a response are dispatched, every result is in the message log.
C5_ErrorEnvelopeNotFatal ==
    /\ [][ ErrorEnvelopeReturned(proc, proc') =>
             /\ ~Raised(proc')
             /\ \/ /\ proc'.pc = "tool"
                   /\ error_result_message(proc) \in Range(proc'.tool_results)
                \/ /\ error_result_message(proc) \in Range(proc'.state)
                   /\ \/ proc'.pc = "call"
                      \/ /\ Returned(proc')
                         /\ proc'.iterations = proc'.max_iterations
                         /\ proc'.run_stop_reason = "max_iterations" ]_vars
    /\ [](DispatchComplete(proc) => Range(proc.tool_results) \subseteq Range(proc.state))

\* a run went on to a further provider request after an error envelope that
\* is in the message log
C5_Witness ==
    /\ proc.pc = "call" /\ proc.last_tool.outcome = "err"
    /\ \E m \in Range(proc.tool_results) :
           m.content.v[1].content.is_error /\ m \in Range(proc.state)

Blank(s) == \A i \in DOMAIN s : s[i] \in Whitespace

\* C7: process.run with an empty or whitespace-only input raises before any
\* provider request and leaves the message log, the enriched system prompt
\* and the preload map as they were.
C7_EmptyInputRejected ==
    [][ (proc.pc = "idle" /\ ops' = ops + 1 /\ proc'.entry = "run"
           /\ Blank(proc'.user_input)) =>
          /\ Raised(proc') /\ proc'.raised_by = "ValueError"
          /\ proc'.pc = "idle" /\ proc'.api_calls = 0
          /\ proc'.state = proc.state
          /\ proc'.enriched_system_prompt = proc.enriched_system_prompt
          /\ proc'.preloaded_content = proc.preloaded_content ]_vars

\* a whitespace-only input was rejected on a process that has a message log
C7_Witness ==
    /\ Raised(proc) /\ proc.raised_by = "ValueError"
    /\ Len(proc.user_input) > 0 /\ Blank(proc.user_input)
    /\ Len(proc.state) > 0 /\ proc.enriched_system_prompt # NoPrompt

\* C8: once the tool uses of a response are dispatched, the log ends with the
\* assistant message followed by one tool-result message that holds all the
\* results, in the document order of the tool_use blocks.
C8_SingleToolResultBundle ==
    DispatchComplete(proc) =>
        LET n == Len(proc.state)
            uses == tool_uses(proc.response)
        IN  /\ n >= 2
            /\ proc.state[n - 1] = [role |-> "assistant", content |-> List(proc.response)]
            /\ proc.state[n].role = "user"
            /\ proc.state[n].content.py = "list"
            /\ Len(proc.state[n].content.v) = Len(uses)
            /\ \A i \in DOMAIN uses :
                   /\ proc.state[n].content.v[i].type = "tool_result"
                   /\ proc.state[n].content.v[i].tool_use_id = uses[i].id

\* an assistant message without content
EmptyAssistant(m) == m.role = "assistant" /\ Len(m.content.v) = 0

\* C9: no assistant message with empty content is in the message log or in
\* the messages of a provider request.
C9_NoEmptyAssistantMessage ==
    /\ \A m \in Range(proc.state) : ~EmptyAssistant(m)
    /\ \A m \in Range(proc.last_request) : ~EmptyAssistant(m)

\* a run ended on a response without tool use and without content
C9_Witness ==
    /\ proc.n_responses > 0 /\ proc.response = <<>> /\ Returned(proc)
    /\ proc.api_calls > 0 /\ Len(proc.last_request) > 0

\* the id of the message appended at zero-based index n
MsgId(n) == <<"msg_", n>>

\* C10: the message at zero-based index n of the log carries the id msg_<n>.
C10_MessageIds ==
    \A n \in DOMAIN proc.state :
        IF "id" \in DOMAIN proc.state[n] THEN proc.state[n].id = MsgId(n - 1)
        ELSE IF "goto_id" \in DOMAIN proc.state[n]
             THEN proc.state[n].goto_id = MsgId(n - 1)
             ELSE FALSE

(* ------------------------ properties of fork -------------------------- *)
\* the fork block of the response of p whose call was dispatched last
\* (the empty sequence when the last dispatched call was no fork call)
fork_call(p) ==
    SelectSeq(p.response, LAMBDA b : b.type = "tool_use" /\ b.name = "fork"
                                     /\ b.id = p.last_tool.id)

\* the results recorded for the tool_use id of a response of p
results_of(p, id) ==
    SelectSeq(p.tool_results, LAMBDA m : m.content.v[1].tool_use_id = id)

\* C11: for fork(prompts = [p0..pk-1]) on a process allowed to fork, the tool
\* result of the call is a list of exactly k entries in input order: entry i
\* has id i and holds the (non-empty) text of the child given prompt pi.
C11_ForkResultInInputOrder ==
    \A who \in Procs :
        (Exists(who) /\ attrs[who].allow_fork = "True" /\ Len(fork_call(The(who))) > 0) =>
            LET p == The(who)
                use == fork_call(p)[1]
                got == results_of(p, use.id)
            IN  /\ ~Raised(p)
                /\ Len(got) = 1
                /\ got[1].content.v[1].content.py = "json"
                /\ LET entries == got[1].content.v[1].content.v
                   IN  /\ Len(entries) = Len(use.input)
                       /\ \A i \in DOMAIN entries :
                              /\ entries[i].id = i - 1
                              /\ Len(entries[i].message) > 0

\* the fields of the parent that fork_process is to copy, all equal in the child
CopiedAtFork(parent, parent_attrs, forked, forked_attrs) ==
    /\ forked.state = parent.state
    /\ forked.preloaded_content = parent.preloaded_content
    /\ parent_attrs.fd_manager # <<>> =>
           \A i \in DOMAIN parent_attrs.fd_manager[1] :
               /\ forked_attrs.fd_manager # <<>>
               /\ i \in DOMAIN forked_attrs.fd_manager[1]
               /\ forked_attrs.fd_manager[1][i] = parent_attrs.fd_manager[1][i]

\* the message log, the preload map and the FD table of one side
Side(p, a) == <<p.state, p.preloaded_content, a.fd_manager>>

\* C12: fork_process gives the child copies of the message log, the preload
\* map and the FD table of the parent (every FD with its content and page
\* count), and no later step that changes the log, the preload map or the FD
\* table of one side changes those of the other side.
C12_ForkIsolation ==
    /\ [][ (child = <<>> /\ child' # <<>>) =>
             CopiedAtFork(proc, attrs.parent, child'[1], attrs'.child) ]_vars
    /\ [][ (child # <<>> /\ child' # <<>>) =>
             \/ Side(proc', attrs'.parent) = Side(proc, attrs.parent)
             \/ Side(child'[1], attrs'.child) = Side(child[1], attrs.child) ]_vars

\* C13: a process produced by a fork has allow_fork = false, its fork tool
\* calls return the refusal text, and no process is ever made from it.
C13_ChildrenCannotFork ==
    child # <<>> =>
        /\ attrs.child.allow_fork = "False"
        /\ Len(child) = 1
        /\ Len(fork_call(child[1])) > 0 =>
               LET got == results_of(child[1], fork_call(child[1])[1].id)
               IN  /\ ~Raised(child[1])
                   /\ Len(got) = 1
                   /\ got[1].content.v[1].content = ForkRefused

\* a call of run_till_text_response is over
TillTextOver == call.op = "run_till_text_response" /\ call.pc = "idle"

\* C14: a call of run_till_text_response in which neither the provider nor a
\* tool fails ends with a non-empty result, after at most budget + 1
\* provider requests.
C14_TillTextTerminatesWithText ==
    (TillTextOver /\ call.raised_by \notin {"provider", "tool"}) =>
        /\ call.outcome = "returned"
        /\ Len(call.result.v) > 0
        /\ call.requests <= call.max_iterations + 1

\* the message log of p when the fork call of its response was made
log_at_fork(p) ==
    IF p.pc = "tool" THEN p.state
    ELSE SubSeq(p.state, 1, Len(p.state) - 1 - Len(p.tool_results))

\* the forking response without its other tool_use blocks
without_siblings(content, tool_id) ==
    SelectSeq(content, LAMBDA b : b.type # "tool_use" \/ b.id = tool_id)

\* C15: after a fork call with prompts on a process allowed to fork, the log
\* of a child is the log of the parent as of the call, then the forking
\* response without its other tool_use blocks, then a tool_result for the
\* fork call; the parent's log gains the forking assistant message and the
\* tool results only.
C15_ChildLogOfFork ==
    (attrs.parent.allow_fork = "True" /\ Len(fork_call(proc)) > 0
         /\ Len(fork_call(proc)[1].input) > 0) =>
        LET use == fork_call(proc)[1]
            before == log_at_fork(proc)
        IN  /\ ~Raised(proc)
            /\ child # <<>>
            /\ Len(child[1].state) >= Len(before) + 2
            /\ SubSeq(child[1].state, 1, Len(before)) = before
            /\ child[1].state[Len(before) + 1] =
                   [role |-> "assistant",
                    content |-> List(without_siblings(proc.response, use.id))]
            /\ child[1].state[Len(before) + 2].role = "user"
            /\ child[1].state[Len(before) + 2].content.v[1].tool_use_id = use.id
            /\ proc.pc # "tool" =>
                   proc.state = (before \o <<[role |-> "assistant",
                                              content |-> List(proc.response)]>>)
                                \o proc.tool_results

(* ------------------------- properties of spawn ------------------------ *)
\* a call of spawn_tool is over
SpawnOver == call.op = "spawn" /\ call.pc = "idle"

\* the call of spawn_tool that is over was successful
SpawnSucceeded == SpawnOver /\ call.outcome = "returned" /\ "response" \in DOMAIN call.result

\* C16: a successful spawn(program_name, query) returns program_name, query
\* and, as response, the text of the child's final assistant message, which is
\* what get_last_message gives on the child after the run.
C16_SpawnReturnsLastMessage ==
    SpawnSucceeded =>
        call.result = [program  |-> call.program_name,
                       query    |-> call.query,
                       response |-> Str(get_last_message(child[call.linked_process]))]

\* the step is one of spawn_tool: the call begins, goes on or ends
SpawnStep == call' # call \/ (call.op = "spawn" /\ child' # child)

GotoStep == ops' # ops

\* position is the id msg_<n> of the message at index n
IsIdOf(position, n) == position.py = "str" /\ position.v = MsgPrefix \o str(n)

C19_HistoryCountsGotos ==
    /\ [][IF GotoStep /\ ~call'.result.is_error
          THEN /\ Len(time_travel_history') = Len(time_travel_history) + 1
               /\ SubSeq(time_travel_history', 1, Len(time_travel_history))
                      = time_travel_history
               /\ time_travel_history'[Len(time_travel_history')].from_message_count
                      = Len(proc.state)
          ELSE /\ time_travel_history' = time_travel_history
               /\ GotoStep => proc'.state = proc.state]_vars
    /\ [](Len(time_travel_history) = call.successes)

\* a goto succeeded on a log of three messages and the next one was rejected
C19_Witness ==
    /\ call.op = "goto" /\ call.result.is_error
    /\ call.successes = 1 /\ Len(time_travel_history) = 1
    /\ time_travel_history[1].from_message_count = 3
    /\ Len(proc.state) > 0

(* ------------------------ properties of compile ----------------------- *)
\* the step is a call of compile() on the program self
CompileStep(self) == ops' # ops /\ call'.op = "compile" /\ call'.self = self

\* C20: compile() returns the program itself and sets compiled; compile() on
\* a program that is compiled returns it again and changes no field of any
\* program, so compile(compile(P)) equals compile(P).
C20_CompileIdempotent ==
    [][\A self \in ProgramIds :
          CompileStep(self) =>
              /\ call'.outcome = "returned" =>
                     call'.result = self /\ programs'[self].compiled
              /\ programs[self].compiled =>
                     call'.outcome = "returned" /\ programs' = programs]_vars

\* compile() was called on main when it was already compiled from a prompt
\* file, function tools and a linked program
C20_Witness ==
    /\ call.op = "compile" /\ call.self = "main" /\ call.outcome = "returned"
    /\ call.was_compiled
    /\ programs.main.compiled /\ programs.expert.compiled
    /\ programs.main.system_prompt = Str(<<"text of", "prompt.md">>)
    /\ programs.main.enabled = <<"f">>
    /\ Len(programs.main.linked_programs) = 1

\* the LLMProgram objects that program id links
LinkedObjects(id) ==
    { programs[id].linked_programs[i][2].v :
          i \in { j \in 1..Len(programs[id].linked_programs) :
                      programs[id].linked_programs[j][2].kind = "program" } }

\* C21: whenever a program's compiled flag is set, every entry of its
\* linked-program map is a compiled program, whatever builder calls and
\* compile() calls were made.
C21_LinkedProgramsCompiled ==
    \A id \in ProgramIds :
        programs[id].compiled =>
            \A i \in 1..Len(programs[id].linked_programs) :
                LET entry == programs[id].linked_programs[i][2]
                IN  \/ entry.kind = "loaded"
                    \/ entry.kind = "program" /\ programs[entry.v].compiled

\* the program id lies on a cycle of the linked-program graph (there are two
\* program objects, so a cycle has one or two links)
OnCycle(id) ==
    \/ id \in LinkedObjects(id)
    \/ \E other \in LinkedObjects(id) : id \in LinkedObjects(other)

\* C22: compile() of a program whose linked-program graph has a cycle through
\* it ends and is rejected with a validation error.
C22_CycleRejected ==
    (call.op = "compile" /\ OnCycle(call.self)) =>
        call.outcome = "raised" /\ call.raised_by = "ValueError"

\* C23: no compiled program has two different aliases with the same target
\* tool; a program that has them is refused when its aliases are set or when
\* it is compiled
C23_AliasesInjective ==
    \A id \in ProgramIds :
        programs[id].compiled =>
            \A x, y \in DOMAIN programs[id].aliases :
                programs[id].aliases[x] = programs[id].aliases[y] => x = y

\* one of the file descriptor tools is in the enabled tools of the program
FdToolEnabled(P) ==
    \E i \in DOMAIN P.enabled : P.enabled[i] \in {"read_fd", "fd_to_file"}

\* C24: when compile() has compiled a program, the file descriptor system of
\* the program is enabled exactly if read_fd or fd_to_file is among its
\* enabled tools
C24_FdIffFdTool ==
    (call.op = "compile" /\ call.outcome = "returned" /\ ~call.was_compiled)
        => (fd_enabled(programs[call.self]) <=> FdToolEnabled(programs[call.self]))

\* C25: the construction of a process from a program of the provider openai
\* that enables a built-in tool or MCP tools raises an exception
C25_ToolsNeedToolProvider ==
    (/\ call.op = "LLMProcess"
     /\ call.before.provider = "openai"
     /\ (Len(call.before.enabled) > 0 \/ call.before.mcp))
        => call.outcome = "raised"

\* the extra headers of a program (none when parameters has no extra_headers)
ExtraHeaders(P) ==
    IF "extra_headers" \in DOMAIN P.parameters THEN P.parameters.extra_headers ELSE <<>>

\* C30: after enable_token_efficient_tools the anthropic-beta header holds
\* the token-efficient value once, every feature the header held before is
\* still in it, and every other header is as it was
C30_TokenEfficientKeepsHeaders ==
    call.op = "enable_token_efficient_tools" =>
        LET old == ExtraHeaders(call.before)
            new == ExtraHeaders(programs.main)
        IN  /\ "anthropic_beta" \in DOMAIN new
            /\ Cardinality({i \in DOMAIN new.anthropic_beta :
                               new.anthropic_beta[i] = TOKEN_EFFICIENT}) = 1
            /\ \A h \in DOMAIN old :
                   /\ h \in DOMAIN new
                   /\ \A i \in DOMAIN old[h] : \E j \in DOMAIN new[h] : new[h][j] = old[h][i]
                   /\ h # "anthropic_beta" => new[h] = old[h]

\* the manager of the process and its descriptors
Manager == attrs.parent.fd_manager[1]

Descriptors ==
    IF attrs.parent.fd_manager = <<>> THEN {} ELSE DOMAIN Manager.file_descriptors

\* what read_fd returns for page k of the descriptor
PageRead(fd, k) == read_fd_tool(fd, FALSE, k, TRUE, Manager)

\* the contents of the pages k..total_pages of the descriptor, one after another
RECURSIVE PagesFrom(_, _)
PagesFrom(fd, k) ==
    IF k > Manager.file_descriptors[fd].total_pages THEN <<>>
    ELSE PageRead(fd, k).content \o PagesFrom(fd, k + 1)

\* C26: a descriptor created from a content gives the content back: read_fd
\* with read_all returns it, the pages 1..total_pages one after another are
\* it, and no page is longer than the page size
C26_FdLossless ==
    \A fd \in Descriptors :
        /\ read_fd_tool(fd, TRUE, 1, TRUE, Manager).content = call.content
        /\ PagesFrom(fd, 1) = call.content
        /\ \A k \in 1..Manager.file_descriptors[fd].total_pages :
               /\ ~PageRead(fd, k).is_error
               /\ Len(PageRead(fd, k).content) <= Manager.default_page_size

\* a descriptor of several pages was created and one of its pages was read
C26_Witness ==
    /\ call.op = "read_fd" /\ ~call.read_all /\ ~call.result.is_error
    /\ call.start = 2
    /\ Len(call.result.content) < Len(call.content)

\* the line ranges of the pages start at line 1 and end at the last line
LinesCovered(fd) ==
    LET total == Manager.file_descriptors[fd].total_pages IN
    /\ PageRead(fd, 1).lines[1] = 1
    /\ PageRead(fd, total).lines[2] = Manager.file_descriptors[fd].total_lines
    /\ \A k \in 1..total : PageRead(fd, k).lines[1] <= PageRead(fd, k).lines[2]

C28_AutoWrap ==
    (/\ call.op = "call_tool" /\ attrs.parent.fd_manager # <<>>
     /\ call.tool_name \notin Manager.fd_related_tools)
        => LET message == proc.state[Len(proc.state)]
               placed  == message.content.v[1].content
           IN  (placed = call.result)
                   <=> (Len(call.result.content) <= Manager.max_direct_output_chars)

\* C29: fd_to_file writes or appends, or refuses and leaves the file as it
\* was: with create and exist_ok it writes; with create alone it writes a
\* new file and refuses with file_exists one that is there; without create
\* it refuses with file_not_found a file that is not there and, with
\* exist_ok, writes to one that is
C29_FdToFilePolicy ==
    (call.op = "fd_to_file" /\ call.fd \in Descriptors) =>
        LET before  == call.before[call.file_path]
            exists  == Len(before) > 0
            content == Manager.file_descriptors[call.fd].content
            written == /\ call.result.type = "fd_file_result"
                       /\ disk[call.file_path] =
                              IF call.mode = "append" /\ exists
                              THEN <<before[1] \o content>> ELSE <<content>>
            refused(type) == call.result.type = type /\ disk = call.before
        IN  /\ (call.create /\ call.exist_ok) => written
            /\ (call.create /\ ~call.exist_ok /\ ~exists) => written
            /\ (call.create /\ ~call.exist_ok /\ exists) => refused("file_exists")
            /\ (~call.create /\ ~exists) => refused("file_not_found")
            /\ (~call.create /\ call.exist_ok /\ exists) => written
            /\ call.result.type # "fd_file_result" => disk = call.before

\* a file that was there was refused without exist_ok, after an append to it
C29_Witness ==
    /\ call.op = "fd_to_file" /\ call.fd \in Descriptors
    /\ call.create /\ ~call.exist_ok
    /\ call.result.type = "file_exists"
    /\ Len(call.before[call.file_path][1]) > 1

\* the texts of the last assistant message of the log, none when the log has
\* no assistant message
LastAssistantTexts(p) ==
    LET at == { i \in DOMAIN p.state : p.state[i].role = "assistant" } IN
    IF at = {} THEN <<>>
    ELSE LET last    == CHOOSE i \in at : \A j \in at : j <= i
             content == p.state[last].content
         IN  IF content.py = "str" THEN content.v
             ELSE LET texts == SelectSeq(content.v, LAMBDA b : b.type = "text")
                  IN  [i \in 1..Len(texts) |-> texts[i].text]

\* C31: whenever no run is in progress, get_last_message gives the texts of
\* the last assistant message of the log, also when tool results follow it
\* because the run stopped at max_iterations
C31_LastMessageIsLastAssistant ==
    proc.pc = "idle" => get_last_message(proc) = LastAssistantTexts(proc)

\* C34: when process.run(input) comes to its first provider request, the
\* messages of the log (the system prompt aside) are those before the call
\* and one user message with the input
C34_InputAppendedOnce ==
    [][ (proc.pc = "idle" /\ proc'.pc = "call" /\ proc'.entry = "run")
            => request_messages(proc')
                   = Append(request_messages(proc),
                            [role |-> "user", content |-> Str(proc'.user_input)]) ]_vars

\* the log before is the beginning of the log after
IsPrefix(before, after) ==
    Len(before) <= Len(after) /\ SubSeq(after, 1, Len(before)) = before

\* C35: a step of the parent that is not reset_state (which empties the log)
\* keeps every message of the log at its index
C35_LogAppendOnly ==
    [][ proc'.state = <<>> \/ IsPrefix(proc.state, proc'.state) ]_vars

\* the ids of the blocks of one type a message holds
BlockIds(m, type) ==
    IF m.content.py = "list"
    THEN { m.content.v[i].id : i \in { j \in DOMAIN m.content.v : m.content.v[j].type = type } }
    ELSE {}

\* the ids the tool_result blocks of a message refer to
ResultIds(m) ==
    IF m.content.py = "list"
    THEN { m.content.v[i].tool_use_id :
             i \in { j \in DOMAIN m.content.v : m.content.v[j].type = "tool_result" } }
    ELSE {}

\* the index of the last assistant message of log before index i, 0 if none
PrecedingAssistant(log, i) ==
    LET before == { j \in 1..(i - 1) : log[j].role = "assistant" }
    IN  IF before = {} THEN 0 ELSE CHOOSE j \in before : \A k \in before : k <= j

\* the indices after i up to the next assistant message of log
UntilNextAssistant(log, i) ==
    { j \in (i + 1)..Len(log) : \A k \in (i + 1)..j : log[k].role # "assistant" }

\* every tool_use of an assistant message is answered before the next
\* assistant message, and every tool_result answers a tool_use of the
\* assistant message just before it
Paired(log) ==
    /\ \A i \in DOMAIN log :
           log[i].role = "assistant" =>
               \A id \in BlockIds(log[i], "tool_use") :
                   \E j \in UntilNextAssistant(log, i) : id \in ResultIds(log[j])
    /\ \A i \in DOMAIN log :
           \A id \in ResultIds(log[i]) :
               /\ PrecedingAssistant(log, i) # 0
               /\ id \in BlockIds(log[PrecedingAssistant(log, i)], "tool_use")

\* C36: in the log of the parent and of a forked child, whatever runs were
\* aborted by a raising tool or a failed request, tool_use and tool_result
\* blocks are paired
C36_ToolUsePaired ==
    Paired(proc.state) /\ \A i \in DOMAIN child : Paired(child[i].state)

\* a run was aborted by a raising tool after a round of tools was answered
C36_Witness ==
    /\ proc.pc = "idle" /\ proc.outcome = "raised" /\ proc.last_tool.outcome = "raise"
    /\ \E i \in DOMAIN proc.state : BlockIds(proc.state[i], "tool_use") # {}

\* the tool_use blocks of the current response before block i
UsesBefore(p, i) ==
    SelectSeq(SubSeq(p.response, 1, i - 1), LAMBDA b : b.type = "tool_use")

\* the on_tool_start and on_tool_end events of the current response
ToolEvents(p) ==
    SelectSeq(p.events, LAMBDA e : e.ev \in {"on_tool_start", "on_tool_end"}
                                   /\ e.id[1] = p.api_calls)

\* C33: while the handler of a tool_use block runs, the blocks before it in
\* the response, and only they, have their results, in document order, and
\* the tool events of the response are start and end of each earlier block in
\* turn and then the start of the current one
C33_SequentialInOrder ==
    proc.pc = "tool" =>
        LET uses == UsesBefore(proc, proc.idx)
            now == proc.response[proc.idx]
        IN  /\ now.type = "tool_use"
            /\ Len(proc.tool_results) = Len(uses)
            /\ \A k \in DOMAIN uses :
                   ResultIds(proc.tool_results[k]) = {uses[k].id}
            /\ proc.callbacks = CallbackNames =>
                   /\ Len(ToolEvents(proc)) = 2 * Len(uses) + 1
                   /\ \A k \in DOMAIN uses :
                          /\ ToolEvents(proc)[2 * k - 1]
                                 = [ev |-> "on_tool_start", id |-> uses[k].id]
                          /\ ToolEvents(proc)[2 * k]
                                 = [ev |-> "on_tool_end", id |-> uses[k].id]
                   /\ ToolEvents(proc)[2 * Len(uses) + 1]
                          = [ev |-> "on_tool_start", id |-> now.id]

\* the handler of the second tool_use of a response runs, with callbacks
C33_Witness ==
    /\ proc.pc = "tool" /\ proc.callbacks = CallbackNames
    /\ Len(UsesBefore(proc, proc.idx)) = 1

\* the types of fd_error payloads
FdErrorTypes ==
    {"not_found", "invalid_page", "file_exists", "file_not_found", "write_error",
     "read_error"}

\* C37: a call of read_fd or fd_to_file that did not do what it was asked
\* comes back as an error envelope, and with a manager in the runtime context
\* the envelope carries one of the fd_error types
C37_FdFailuresAreErrors ==
    (call.op \in {"read_fd", "fd_to_file"}
         /\ call.result.type \notin {"fd_content", "fd_file_result"})
        => /\ call.result.is_error
           /\ attrs.parent.fd_manager # <<>> => call.result.type \in FdErrorTypes

\* the built-in tools of this version besides spawn
BuiltinTools == {"calculator", "read_file", "fork", "read_fd", "fd_to_file"}

\* C39: the process LLMProcess(program) returns has every enabled built-in
\* tool registered, spawn exactly when it is enabled and there are linked
\* programs, and no built-in tool the program did not enable
C39_EnabledToolsRegistered ==
    (call.op = "LLMProcess" /\ call.outcome = "returned") =>
        LET r == call.result
            enabled == { r.enabled_tools[i] : i \in DOMAIN r.enabled_tools }
        IN  /\ \A t \in BuiltinTools : t \in enabled => t \in r.tools
            /\ "spawn" \in r.tools <=> ("spawn" \in enabled /\ r.has_linked_programs)
            /\ r.tools \subseteq enabled

\* C38: a handler of an external tool returns an envelope whatever the
\* connector did, flagged as error exactly when the connector flagged its
\* result or raised; and a manager without a connector (never initialized, or
\* initialization failed) gives no registrations
C38_McpErrorsAreEnvelopes ==
    /\ call.op = "tool_handler" =>
           /\ call.outcome = "returned"
           /\ call.result.is_error
                  <=> (call.connector.raised # None \/ call.connector.isError)
    /\ (call.op = "get_tool_registrations" /\ attrs.parent.mcp_manager.aggregator = <<>>)
           => call.result = <<>>

\* a handler was called and the connector raised
C38_Witness ==
    /\ call.op = "tool_handler" /\ call.connector.raised # None
    /\ call.result.is_error

\* registrations were asked of a manager that has a configuration path and no
\* connector
AskedWithoutConnector ==
    /\ call.op = "get_tool_registrations" /\ attrs.parent.mcp_manager.aggregator = <<>>
    /\ attrs.parent.mcp_manager.config_path # None

\* C32: whatever the interleaving of the from_toml calls of the threads, the
\* registry entry of a path is written at most once and all callers that
\* asked for a path were handed the same program object
C32_RegistryWriteOnce ==
    /\ \A p \in TomlPaths : ref.writes[p] <= 1
    /\ \A r1, r2 \in ref.returned : r1[1] = r2[1] => r1[2] = r2[2]

\* the linked entries of a program are program objects that are compiled
LinksCompiled(program) ==
    \A i \in DOMAIN program.linked_programs :
        /\ program.linked_programs[i].value.py = "LLMProgram"
        /\ programs.objects[program.linked_programs[i].value.v].compiled

\* C40: when from_toml calls are made one after the other, the program a
\* call returns is compiled and its linked entries are compiled program
\* objects, also after an earlier load raised and in a cycle of links
C40_LoadedProgramsCompiled ==
    (call["t2"].loads = 0 /\ call["t1"].outcome = "returned") =>
        /\ programs.objects[call["t1"].program].compiled
        /\ LinksCompiled(programs.objects[call["t1"].program])

====
